---- MODULE Spec2Model ----
(***************************************************************************)
(* Model of the SAML identity provider chriskery/sso-idp: the redirect SSO *)
(* handler (idp/sso.go), request validation against the service-provider   *)
(* registry, detached redirect-signature verification, and the response    *)
(* pipeline (idp/response.go, idp/artifact.go).                            *)
(*                                                                         *)
(* Octet strings are sequences of tokens.  A token is a run of octets:     *)
(*   c    the octets of the token once URL-unescaped,                      *)
(*   enc  1 when the token is percent-encoded on the wire, 0 otherwise,    *)
(*   n    the number of octets of the unescaped token,                     *)
(*   b64  whether the unescaped token is well-formed standard base64,      *)
(*   xml  what base64 + inflate + XML decoding of the token yields,        *)
(*   sig  what the token is, once base64-decoded, as a signature value.    *)
(* The delimiters '&' and '=' of a query string are tokens with enc = 0.   *)
(***************************************************************************)
EXTENDS Integers, Sequences, FiniteSets, TLC

VARIABLES sps, TempCache, UserCache, nextId, r, w, calls, args, ret

vars == <<sps, TempCache, UserCache, nextId, r, w, calls, args, ret>>

(***************************************************************************)
(* Bounds of the model.                                                    *)
(***************************************************************************)
MaxACS == 3
MaxIndex == 1
MaxIds == 3
MaxSLO == 2

(***************************************************************************)
(* Tokens and octet strings.                                               *)
(***************************************************************************)
NoXML ==
  [wf |-> "none", ID |-> "", Issuer |-> "", AssertionConsumerServiceURL |-> "",
   ProtocolBinding |-> "", AssertionConsumerServiceIndex |-> 0]

NoSig ==
  [alg |-> "none", key |-> "", hash |-> "", msg |-> <<>>, asn1 |-> "err", R |-> 0, S |-> 0]

Tok(c, n) == [c |-> c, enc |-> 0, n |-> n, b64 |-> FALSE, xml |-> NoXML, sig |-> NoSig]

Esc(t) == [t EXCEPT !.enc = 1]

Str(c, n) == <<Tok(c, n)>>

Amp == Tok("&", 1)

Eq == Tok("=", 1)

IsSep(t, sep) == t.c = sep /\ t.enc = 0

(* f applied to the value of v, which is worked out once. *)
With(v, f(_)) == CHOOSE y \in {f(x) : x \in {v}} : TRUE

RECURSIVE len(_)
len(s) == IF s = <<>> THEN 0 ELSE Head(s).n + len(Tail(s))

(* strings.Split: the pieces of s between the occurrences of sep; an empty *)
(* string yields one empty piece.                                          *)
RECURSIVE Split(_, _)
Split(s, sep) ==
  IF \A i \in 1..Len(s) : ~IsSep(s[i], sep)
  THEN <<s>>
  ELSE LET k == CHOOSE i \in 1..Len(s) :
                  IsSep(s[i], sep) /\ \A j \in 1..(i - 1) : ~IsSep(s[j], sep)
       IN  <<SubSeq(s, 1, k - 1)>> \o Split(SubSeq(s, k + 1, Len(s)), sep)

(* strings.Join *)
RECURSIVE Join(_, _)
Join(parts, sep) ==
  IF parts = <<>> THEN <<>>
  ELSE IF Len(parts) = 1 THEN parts[1]
  ELSE parts[1] \o <<sep>> \o Join(Tail(parts), sep)

(***************************************************************************)
(* net/url query parsing as used by r.ParseForm and r.Form.Get.            *)
(***************************************************************************)
BadEscape == "%zz"

CanUnescape(s) == \A i \in 1..Len(s) : s[i].c # BadEscape

QueryUnescape(s) == [i \in 1..Len(s) |-> [s[i] EXCEPT !.enc = 0]]

(* strings.Cut: the text before and after the first sep. *)
Cut(s, sep) ==
  IF \A i \in 1..Len(s) : ~IsSep(s[i], sep)
  THEN [before |-> s, after |-> <<>>]
  ELSE LET k == CHOOSE i \in 1..Len(s) :
                  IsSep(s[i], sep) /\ \A j \in 1..(i - 1) : ~IsSep(s[j], sep)
       IN  [before |-> SubSeq(s, 1, k - 1), after |-> SubSeq(s, k + 1, Len(s))]

RECURSIVE parseQuery(_)
parseQuery(segs) ==
  IF segs = <<>> THEN [values |-> <<>>, err |-> FALSE]
  ELSE LET rest == parseQuery(Tail(segs))
           kv   == Cut(Head(segs), "=")
       IN  IF Head(segs) = <<>> THEN rest
           ELSE IF ~CanUnescape(kv.before) \/ ~CanUnescape(kv.after)
                THEN [rest EXCEPT !.err = TRUE]
                ELSE [rest EXCEPT !.values =
                        <<[k |-> QueryUnescape(kv.before),
                           v |-> QueryUnescape(kv.after)]>> \o @]

(* r.ParseForm() of a GET request: the values of the raw query, in order,  *)
(* and whether some pair could not be unescaped.                           *)
ParseForm(rawQuery) == parseQuery(Split(rawQuery, "&"))

(* r.Form.Get(key): the first value of key, or the empty string. *)
FormGet(form, key) ==
  IF \A i \in 1..Len(form.values) : form.values[i].k # key
  THEN <<>>
  ELSE LET k == CHOOSE i \in 1..Len(form.values) :
                  form.values[i].k = key /\ \A j \in 1..(i - 1) : form.values[j].k # key
       IN  form.values[k].v

KSAMLRequest == Str("SAMLRequest", 11)

KRelayState == Str("RelayState", 10)

KSigAlg == Str("SigAlg", 6)

KSignature == Str("Signature", 9)

(***************************************************************************)
(* Signature algorithms and verification primitives.                       *)
(***************************************************************************)
DsaSha256 == "http://www.w3.org/2009/xmldsig11#dsa-sha256"

DsaSha1 == "http://www.w3.org/2000/09/xmldsig#dsa-sha1"

RsaSha1 == "http://www.w3.org/2000/09/xmldsig#rsa-sha1"

RsaSha256 == "http://www.w3.org/2001/04/xmldsig-more#rsa-sha256"

(* An algorithm the switch of verifySignature does not list. *)
RsaMd5 == "http://www.w3.org/2001/04/xmldsig-more#rsa-md5"

ErrTrouble == "trouble validating signature on request"

ErrBase64 == "illegal base64 data"

ErrUnsupportedAlg == "unsupported signature algorithm"

ErrRSA == "crypto/rsa: verification error"

ErrASN1 == "asn1: structure error"

ErrTrailing == "trailing data after DSA signature"

ErrZeroNeg == "DSA signature contained zero or negative values"

ErrDSA == "DSA verification failure"

Panic == "panic: interface conversion"

(* The name of the algorithm a form value spells, "" when it is no single token. *)
AlgName(alg) == IF Len(alg) = 1 THEN alg[1].c ELSE ""

(* base64.StdEncoding.DecodeString *)
B64Ok(v) == \A i \in 1..Len(v) : v[i].b64

(* The decoded octets of a base64 signature value, as a signature value. *)
SigBytes(v) == IF Len(v) = 1 THEN v[1].sig ELSE NoSig

sha1Sum(sig) == [h |-> "sha1", m |-> sig]

sha256Sum(sig) == [h |-> "sha256", m |-> sig]

(* rsa.VerifyPKCS1v15(pub, hash, sum, signature) *)
VerifyPKCS1v15(pub, hash, sum, signature) ==
  IF /\ signature.alg = "rsa"
     /\ signature.key = pub.id
     /\ signature.hash = hash
     /\ [h |-> signature.hash, m |-> signature.msg] = sum
  THEN "" ELSE ErrRSA

(* dsa.Verify(pub, sum, R, S) *)
dsaVerify(pub, sum, signature) ==
  /\ signature.alg = "dsa"
  /\ signature.key = pub.id
  /\ [h |-> signature.hash, m |-> signature.msg] = sum

(* verifyDSA as it would be if the octets left over by asn1.Unmarshal were *)
(* not looked at.                                                          *)
verifyDSA_IgnoreRest(sp, signature, sum) ==
  IF signature.asn1 = "err" THEN ErrASN1
  ELSE IF signature.R <= 0 \/ signature.S <= 0 THEN ErrZeroNeg
  ELSE IF sp.publicKey.type # "dsa" THEN Panic
  ELSE IF ~dsaVerify(sp.publicKey, sum, signature) THEN ErrDSA
  ELSE ""

(* verifyDSA: the DER decoding, the octets it left over, the signs of R    *)
(* and S, then dsa.Verify with the key asserted to be a DSA key.           *)
verifyDSA(sp, signature, sum) ==
  IF signature.asn1 = "err" THEN ErrASN1
  ELSE IF signature.asn1 = "rest" THEN ErrTrailing
  ELSE IF signature.R <= 0 \/ signature.S <= 0 THEN ErrZeroNeg
  ELSE IF sp.publicKey.type # "dsa" THEN Panic
  ELSE IF ~dsaVerify(sp.publicKey, sum, signature) THEN ErrDSA
  ELSE ""

(* The value stored last under key in pMap, "" when there is none. *)
pMapGet(params, key) ==
  LET hits == {i \in 1..Len(params) : Split(params[i], "=")[1] = key}
  IN  IF hits = {} THEN <<>>
      ELSE Split(params[CHOOSE i \in hits : \A j \in hits : j <= i], "=")[2]

pMapHas(params, key) ==
  \E i \in 1..Len(params) : Split(params[i], "=")[1] = key

(* The octet string as it would be if built from the unescaped form values. *)
sigOctets_Unescaped(params) ==
  LET sigparts0 == <<KSAMLRequest \o <<Eq>> \o QueryUnescape(pMapGet(params, KSAMLRequest))>>
      sigparts1 == IF pMapHas(params, KRelayState)
                   THEN Append(sigparts0,
                          KRelayState \o <<Eq>> \o QueryUnescape(pMapGet(params, KRelayState)))
                   ELSE sigparts0
      sigparts2 == Append(sigparts1, KSigAlg \o <<Eq>> \o QueryUnescape(pMapGet(params, KSigAlg)))
  IN  Join(sigparts2, Amp)

(* The octet string verifySignature hashes. *)
sigOctets(params) ==
  LET sigparts0 == <<KSAMLRequest \o <<Eq>> \o pMapGet(params, KSAMLRequest)>>
      sigparts1 == IF pMapHas(params, KRelayState)
                   THEN Append(sigparts0, KRelayState \o <<Eq>> \o pMapGet(params, KRelayState))
                   ELSE sigparts0
      sigparts2 == Append(sigparts1, KSigAlg \o <<Eq>> \o pMapGet(params, KSigAlg))
  IN  Join(sigparts2, Amp)

NotHashed == [err |-> "", hashed |-> FALSE, octets |-> <<>>, h |-> "", v |-> ""]

(* Verification as it would be if the switch fell back to rsa-sha1. *)
verifySignature_DefaultRsaSha1(rawQuery, alg, expectedSig, sp) ==
  With(Split(rawQuery, "&"), LAMBDA params :
      IF \E i \in 1..Len(params) : Len(Split(params[i], "=")) # 2
      THEN [NotHashed EXCEPT !.err = ErrTrouble]
      ELSE
      With(sigOctets(params), LAMBDA sig :
      LET signature == SigBytes(expectedSig)
      IN  IF ~B64Ok(expectedSig) THEN [NotHashed EXCEPT !.err = ErrBase64]
          ELSE IF AlgName(alg) = DsaSha256
          THEN [err |-> verifyDSA(sp, signature, sha256Sum(sig)),
                hashed |-> TRUE, octets |-> sig, h |-> "sha256", v |-> "dsa"]
          ELSE IF AlgName(alg) = DsaSha1
          THEN [err |-> verifyDSA(sp, signature, sha1Sum(sig)),
                hashed |-> TRUE, octets |-> sig, h |-> "sha1", v |-> "dsa"]
          ELSE IF AlgName(alg) = RsaSha256
          THEN [err |-> IF sp.publicKey.type # "rsa" THEN Panic
                        ELSE VerifyPKCS1v15(sp.publicKey, "sha256", sha256Sum(sig), signature),
                hashed |-> TRUE, octets |-> sig, h |-> "sha256", v |-> "rsa"]
          ELSE [err |-> IF sp.publicKey.type # "rsa" THEN Panic
                        ELSE VerifyPKCS1v15(sp.publicKey, "sha1", sha1Sum(sig), signature),
                hashed |-> TRUE, octets |-> sig, h |-> "sha1", v |-> "rsa"]))

verifySignature(rawQuery, alg, expectedSig, sp) ==
  With(Split(rawQuery, "&"), LAMBDA params :
      IF \E i \in 1..Len(params) : Len(Split(params[i], "=")) # 2
      THEN [NotHashed EXCEPT !.err = ErrTrouble]
      ELSE
      With(sigOctets(params), LAMBDA sig :
      LET signature == SigBytes(expectedSig)
      IN  IF ~B64Ok(expectedSig) THEN [NotHashed EXCEPT !.err = ErrBase64]
          ELSE IF AlgName(alg) = DsaSha256
          THEN [err |-> verifyDSA(sp, signature, sha256Sum(sig)),
                hashed |-> TRUE, octets |-> sig, h |-> "sha256", v |-> "dsa"]
          ELSE IF AlgName(alg) = DsaSha1
          THEN [err |-> verifyDSA(sp, signature, sha1Sum(sig)),
                hashed |-> TRUE, octets |-> sig, h |-> "sha1", v |-> "dsa"]
          ELSE IF AlgName(alg) = RsaSha1
          THEN [err |-> IF sp.publicKey.type # "rsa" THEN Panic
                        ELSE VerifyPKCS1v15(sp.publicKey, "sha1", sha1Sum(sig), signature),
                hashed |-> TRUE, octets |-> sig, h |-> "sha1", v |-> "rsa"]
          ELSE IF AlgName(alg) = RsaSha256
          THEN [err |-> IF sp.publicKey.type # "rsa" THEN Panic
                        ELSE VerifyPKCS1v15(sp.publicKey, "sha256", sha256Sum(sig), signature),
                hashed |-> TRUE, octets |-> sig, h |-> "sha256", v |-> "rsa"]
          ELSE [NotHashed EXCEPT !.err = ErrUnsupportedAlg]))

(***************************************************************************)
(* Request validation against the service-provider registry.               *)
(***************************************************************************)
ErrNoIssuer == "request does not contain an issuer"

ErrUnregistered == "request from an unregistered issuer"

ErrNoACS == "unable to determine assertion consumer service"

ErrACSMismatch == "assertion consumer location in request does not match metadata"

(* The loop as it would be if a default entry ended the scan. *)
RECURSIVE acsScan_DefaultEndsScan(_, _, _, _)
acsScan_DefaultEndsScan(list, request, i, acs) ==
  IF i > Len(list) THEN acs
  ELSE IF list[i].Index = request.AssertionConsumerServiceIndex THEN i
  ELSE IF list[i].IsDefault THEN i
  ELSE IF list[i].Location = request.AssertionConsumerServiceURL THEN i
  ELSE acsScan_DefaultEndsScan(list, request, i + 1, acs)

(* The loop over sp.AssertionConsumerServices: the position of the entry   *)
(* acs points to when the loop ends, 0 for nil.                            *)
RECURSIVE acsScan(_, _, _, _)
acsScan(list, request, i, acs) ==
  IF i > Len(list) THEN acs
  ELSE IF list[i].Index = request.AssertionConsumerServiceIndex THEN i
  ELSE IF list[i].Location = request.AssertionConsumerServiceURL THEN i
  ELSE IF list[i].IsDefault THEN acsScan(list, request, i + 1, i)
  ELSE acsScan(list, request, i + 1, acs)

NoVerify == [NotHashed EXCEPT !.err = "not reached"]

(* Validation as it would be without the location check of lines 72-76. *)
validateAuthRequest_NoLocationCheck(registry, request, rawQuery, form) ==
  IF request.Issuer = ""
  THEN [err |-> ErrNoIssuer, request |-> request, acs |-> 0, vs |-> NoVerify]
  ELSE IF request.Issuer \notin DOMAIN registry
  THEN [err |-> ErrUnregistered, request |-> request, acs |-> 0, vs |-> NoVerify]
  ELSE
  LET sp  == registry[request.Issuer]
      acs == acsScan(sp.AssertionConsumerServices, request, 1, 0)
  IN  IF acs = 0
      THEN [err |-> ErrNoACS, request |-> request, acs |-> 0, vs |-> NoVerify]
      ELSE
      LET request1 == IF request.AssertionConsumerServiceURL = ""
                      THEN [request EXCEPT !.AssertionConsumerServiceURL =
                                             sp.AssertionConsumerServices[acs].Location]
                      ELSE request
      IN  With(verifySignature(rawQuery, FormGet(form, KSigAlg), FormGet(form, KSignature), sp),
               LAMBDA vs : [err |-> vs.err, request |-> request1, acs |-> acs, vs |-> vs])

validateAuthRequest(registry, request, rawQuery, form) ==
  IF request.Issuer = ""
  THEN [err |-> ErrNoIssuer, request |-> request, acs |-> 0, vs |-> NoVerify]
  ELSE IF request.Issuer \notin DOMAIN registry
  THEN [err |-> ErrUnregistered, request |-> request, acs |-> 0, vs |-> NoVerify]
  ELSE
  LET sp  == registry[request.Issuer]
      acs == acsScan(sp.AssertionConsumerServices, request, 1, 0)
  IN  IF acs = 0
      THEN [err |-> ErrNoACS, request |-> request, acs |-> 0, vs |-> NoVerify]
      ELSE IF /\ request.AssertionConsumerServiceURL # ""
              /\ request.AssertionConsumerServiceURL # sp.AssertionConsumerServices[acs].Location
      THEN [err |-> ErrACSMismatch, request |-> request, acs |-> acs, vs |-> NoVerify]
      ELSE
      LET request1 == [request EXCEPT !.AssertionConsumerServiceURL =
                                        sp.AssertionConsumerServices[acs].Location]
      IN  With(verifySignature(rawQuery, FormGet(form, KSigAlg), FormGet(form, KSignature), sp),
               LAMBDA vs : [err |-> vs.err, request |-> request1, acs |-> acs, vs |-> vs])

(***************************************************************************)
(* Building requests: what a service provider (or an attacker) sends.      *)
(***************************************************************************)
AuthnRequestXML(id, issuer, url, binding, index) ==
  [wf |-> "ok", ID |-> id, Issuer |-> issuer, AssertionConsumerServiceURL |-> url,
   ProtocolBinding |-> binding, AssertionConsumerServiceIndex |-> index]

(* The query value carrying a deflated, base64-encoded, URL-escaped request. *)
ReqTok(xml) ==
  [c |-> "<SAMLRequest>", enc |-> 1, n |-> 64, b64 |-> TRUE, xml |-> xml, sig |-> NoSig]

(* A SigAlg URI as it travels in a query (':' '/' '#' percent-encoded). *)
AlgTok(uri) == Esc(Tok(uri, 40))

(* The octet string a signer signs, SAML bindings 3.4.4.1. relay is a      *)
(* one-element sequence holding the RelayState value, or empty.            *)
SignedOctets(samlReq, relay, sigAlg) ==
  KSAMLRequest \o <<Eq>> \o samlReq
    \o (IF relay = <<>> THEN <<>> ELSE <<Amp>> \o KRelayState \o <<Eq>> \o relay[1])
    \o <<Amp>> \o KSigAlg \o <<Eq>> \o sigAlg

HashOf(uri) == IF uri \in {RsaSha1, DsaSha1} THEN "sha1" ELSE "sha256"

(* The signature value the holder of key makes over msg. *)
Sign(key, hash, msg) ==
  [alg |-> key.type, key |-> key.id, hash |-> hash, msg |-> msg,
   asn1 |-> IF key.type = "dsa" THEN "ok" ELSE "err",
   R |-> IF key.type = "dsa" THEN 1 ELSE 0,
   S |-> IF key.type = "dsa" THEN 1 ELSE 0]

SigTok(sig) ==
  [c |-> "<Signature>", enc |-> 1, n |-> 64, b64 |-> TRUE, xml |-> NoXML, sig |-> sig]

(* The query made of the parameters ps = <<[k, v], ...>>, in that order. *)
RECURSIVE QueryOf(_)
QueryOf(ps) ==
  IF ps = <<>> THEN <<>>
  ELSE IF Len(ps) = 1 THEN ps[1].k \o <<Eq>> \o ps[1].v
  ELSE ps[1].k \o <<Eq>> \o ps[1].v \o <<Amp>> \o QueryOf(Tail(ps))

(* The parameters of a redirect request, in the order the binding gives. *)
ParamsOf(samlReq, relay, sigAlg, signature) ==
  <<[k |-> KSAMLRequest, v |-> samlReq]>>
    \o (IF relay = <<>> THEN <<>> ELSE <<[k |-> KRelayState, v |-> relay[1]]>>)
    \o <<[k |-> KSigAlg, v |-> sigAlg], [k |-> KSignature, v |-> signature]>>

(* A correctly signed redirect query. *)
SignedQuery(samlReq, relay, uri, key) ==
  QueryOf(ParamsOf(samlReq, relay, <<AlgTok(uri)>>,
            <<SigTok(Sign(key, HashOf(uri), SignedOctets(samlReq, relay, <<AlgTok(uri)>>)))>>))

SeqsUpTo(S, n) == UNION {[1..k -> S] : k \in 0..n}

Perms(n) == {p \in [1..n -> 1..n] : \A i, j \in 1..n : i # j => p[i] # p[j]}

(***************************************************************************)
(* The service providers of the model.                                     *)
(***************************************************************************)
SP1 == "https://sp.example/"

SP2 == "https://sp2.example/"

Evil == "https://evil/"

Key1 == [type |-> "rsa", id |-> "sp1-key"]

Key2 == [type |-> "dsa", id |-> "sp2-key"]

Loc1 == "https://sp.example/acs1"

Loc2 == "https://sp.example/acs2"

EvilLoc == "https://evil/acs"

BindingArtifact == "urn:oasis:names:tc:SAML:2.0:bindings:HTTP-Artifact"

BindingPOST == "urn:oasis:names:tc:SAML:2.0:bindings:HTTP-POST"

BindingPAOS == "urn:oasis:names:tc:SAML:2.0:bindings:PAOS"

BindingRedirect == "urn:oasis:names:tc:SAML:2.0:bindings:HTTP-Redirect"

ACSEntries ==
  [Index : 0..MaxIndex, IsDefault : BOOLEAN, Binding : {BindingPOST}, Location : {Loc1, Loc2}]

MakeSP(id, acs, slo, key) ==
  [EntityID |-> id, AssertionConsumerServices |-> acs,
   SingleLogoutServices |-> slo, publicKey |-> key]

EmptyCache == [k \in {} |-> 0]

NoRet == [done |-> FALSE]

NoRequest == [kind |-> "none"]

NoResponse == [status |-> -1]

(***************************************************************************)
(* Caches, users and responses.                                            *)
(***************************************************************************)
MaxRelayState == 80

NoKey == [t |-> "none", n |-> 0]

(* uuid.New().String() for the n-th UUID the process draws. *)
UUID(n) == [t |-> "uuid", n |-> n]

(* getArtifact: the base64 artifact whose message part hashes the n-th UUID. *)
getArtifact(n) == [t |-> "artifact", n |-> n]

NoUser == [Name |-> "", Format |-> "", Context |-> "", Attributes |-> <<>>]

FormatX509 == "urn:oasis:names:tc:SAML:1.1:nameid-format:X509SubjectName"

ContextX509 == "urn:oasis:names:tc:SAML:2.0:ac:classes:X509"

NoAuthnRequest ==
  [ID |-> "", Issuer |-> "", AssertionConsumerServiceURL |-> "",
   ProtocolBinding |-> "", RelayState |-> <<>>]

(* model.NewAuthnRequest: the saveable request with its RelayState. *)
NewAuthnRequest(loginReq, relayState) ==
  [ID |-> loginReq.ID, Issuer |-> loginReq.Issuer,
   AssertionConsumerServiceURL |-> loginReq.AssertionConsumerServiceURL,
   ProtocolBinding |-> loginReq.ProtocolBinding, RelayState |-> relayState]

(* store.Cache: Set inserts or replaces, Get finds a live entry, Delete    *)
(* removes.                                                                *)
CacheSet(cache, key, data) == (key :> data) @@ cache

CacheHas(cache, key) == key \in DOMAIN cache

CacheDelete(cache, key) == [k \in (DOMAIN cache) \ {key} |-> cache[k]]

LoginPage == "/idp/static/login.html"

NoLocation == [to |-> "", key |-> NoKey, relay |-> <<>>]

(* What i.Error(w, msg, code) leaves in the response. *)
ErrorResponse(code, msg, cookie) ==
  [status |-> code, body |-> msg, cookie |-> cookie, location |-> NoLocation, aborted |-> FALSE]

(* A handler that panics writes nothing: net/http drops the connection. *)
AbortedResponse ==
  [status |-> 0, body |-> "", cookie |-> NoKey, location |-> NoLocation, aborted |-> TRUE]

ErrRelayState == "RelayState cannot be longer than 80 characters"

ErrEscape == "invalid URL escape"

ErrXML == "XML syntax error"

ErrAttributes == "attribute source failed"

ErrCacheSet == "cache set failed"

ErrBinding == "unsupported protocol binding"

(* The request a base64 SAMLRequest value inflates and decodes to. *)
XmlOf(samlReq) == IF Len(samlReq) = 1 THEN samlReq[1].xml ELSE NoXML

(* getCertFromRequest / getSubjectDN: the subject of the TLS peer          *)
(* certificate, "" when the client presented none.                         *)
getCertFromRequest(rq) == rq.Cert

(* getUserFromSession: the user the session cookie resolves to, or NoUser. *)
getUserFromSession(st, rq) ==
  IF rq.Cookie # NoKey /\ CacheHas(st.UserCache, rq.Cookie)
  THEN st.UserCache[rq.Cookie]
  ELSE NoUser

(* sendArtifactResponse: the artifact blob goes to TempCache (the result   *)
(* of Set is not looked at) and the browser to the ACS.                    *)
sendArtifactResponse(st, authRequest, user, rq, cookie) ==
  LET artifact == getArtifact(st.nextId)
  IN  [TempCache |-> IF rq.Fault = "TempCache.Set" THEN st.TempCache
                     ELSE CacheSet(st.TempCache, artifact,
                                   [request |-> authRequest, user |-> user]),
       UserCache |-> st.UserCache,
       nextId    |-> st.nextId + 1,
       err       |-> "",
       w         |-> [status |-> 302, body |-> "", cookie |-> cookie,
                      location |-> [to |-> authRequest.AssertionConsumerServiceURL,
                                    key |-> artifact, relay |-> authRequest.RelayState],
                      aborted |-> FALSE]]

(* sendPostResponse: an auto-submitting form that posts the signed         *)
(* Response to the ACS.                                                    *)
sendPostResponse(st, authRequest, user, rq, cookie) ==
  [TempCache |-> st.TempCache, UserCache |-> st.UserCache, nextId |-> st.nextId,
   err |-> "",
   w |-> [status |-> 200, body |-> "SAMLResponse form", cookie |-> cookie,
          location |-> [to |-> authRequest.AssertionConsumerServiceURL,
                        key |-> NoKey, relay |-> authRequest.RelayState],
          aborted |-> FALSE]]

(* sendECPResponse: a SOAP envelope carrying the signed Response. *)
sendECPResponse(st, authRequest, user, rq, cookie) ==
  [TempCache |-> st.TempCache, UserCache |-> st.UserCache, nextId |-> st.nextId,
   err |-> "",
   w |-> [status |-> 200, body |-> "ECP envelope", cookie |-> cookie,
          location |-> NoLocation, aborted |-> FALSE]]

(* respond as it would be if a binding it does not know were delivered as  *)
(* HTTP-POST.                                                              *)
respond_DefaultPost(st, authRequest, user, rq) ==
  LET session == UUID(st.nextId)
      st1     == [st EXCEPT !.nextId = @ + 1]
  IN  IF rq.Fault = "UserCache.Set"
      THEN [TempCache |-> st.TempCache, UserCache |-> st.UserCache, nextId |-> st1.nextId,
            err |-> ErrCacheSet, w |-> ErrorResponse(0, "", NoKey)]
      ELSE
      LET st2 == [st1 EXCEPT !.UserCache = CacheSet(@, session, user)]
      IN  IF authRequest.ProtocolBinding = BindingArtifact
          THEN sendArtifactResponse(st2, authRequest, user, rq, session)
          ELSE IF authRequest.ProtocolBinding = BindingPAOS
          THEN sendECPResponse(st2, authRequest, user, rq, session)
          ELSE sendPostResponse(st2, authRequest, user, rq, session)

(* respond as it would be if the cookie were set before UserCache.Set is   *)
(* called.                                                                 *)
respond_CookieFirst(st, authRequest, user, rq) ==
  LET session == UUID(st.nextId)
      st1     == [st EXCEPT !.nextId = @ + 1]
  IN  IF rq.Fault = "UserCache.Set"
      THEN [TempCache |-> st.TempCache, UserCache |-> st.UserCache, nextId |-> st1.nextId,
            err |-> ErrCacheSet, w |-> ErrorResponse(0, "", session)]
      ELSE
      LET st2 == [st1 EXCEPT !.UserCache = CacheSet(@, session, user)]
      IN  IF authRequest.ProtocolBinding = BindingArtifact
          THEN sendArtifactResponse(st2, authRequest, user, rq, session)
          ELSE IF authRequest.ProtocolBinding = BindingPOST
          THEN sendPostResponse(st2, authRequest, user, rq, session)
          ELSE IF authRequest.ProtocolBinding = BindingPAOS
          THEN sendECPResponse(st2, authRequest, user, rq, session)
          ELSE [TempCache |-> st2.TempCache, UserCache |-> st2.UserCache,
                nextId |-> st2.nextId, err |-> ErrBinding,
                w |-> ErrorResponse(0, "", session)]

(* respond as it would be if a binding it does not know were turned down   *)
(* before the user is stored and the cookie set.                           *)
respond_CheckBindingFirst(st, authRequest, user, rq) ==
  LET session == UUID(st.nextId)
      st1     == [st EXCEPT !.nextId = @ + 1]
  IN  IF authRequest.ProtocolBinding \notin {BindingArtifact, BindingPOST, BindingPAOS}
      THEN [TempCache |-> st.TempCache, UserCache |-> st.UserCache, nextId |-> st1.nextId,
            err |-> ErrBinding, w |-> ErrorResponse(0, "", NoKey)]
      ELSE IF rq.Fault = "UserCache.Set"
      THEN [TempCache |-> st.TempCache, UserCache |-> st.UserCache, nextId |-> st1.nextId,
            err |-> ErrCacheSet, w |-> ErrorResponse(0, "", NoKey)]
      ELSE
      LET st2 == [st1 EXCEPT !.UserCache = CacheSet(@, session, user)]
      IN  IF authRequest.ProtocolBinding = BindingArtifact
          THEN sendArtifactResponse(st2, authRequest, user, rq, session)
          ELSE IF authRequest.ProtocolBinding = BindingPOST
          THEN sendPostResponse(st2, authRequest, user, rq, session)
          ELSE sendECPResponse(st2, authRequest, user, rq, session)

(* respond: store the user under a new session, set the cookie, deliver.   *)
(* err # "" is the error respond returns; w then holds what was written    *)
(* to the response before the caller reports the error.                    *)
respond(st, authRequest, user, rq) ==
  LET session == UUID(st.nextId)
      st1     == [st EXCEPT !.nextId = @ + 1]
  IN  IF rq.Fault = "UserCache.Set"
      THEN [TempCache |-> st.TempCache, UserCache |-> st.UserCache, nextId |-> st1.nextId,
            err |-> ErrCacheSet, w |-> ErrorResponse(0, "", NoKey)]
      ELSE
      LET st2 == [st1 EXCEPT !.UserCache = CacheSet(@, session, user)]
      IN  IF authRequest.ProtocolBinding = BindingArtifact
          THEN sendArtifactResponse(st2, authRequest, user, rq, session)
          ELSE IF authRequest.ProtocolBinding = BindingPOST
          THEN sendPostResponse(st2, authRequest, user, rq, session)
          ELSE IF authRequest.ProtocolBinding = BindingPAOS
          THEN sendECPResponse(st2, authRequest, user, rq, session)
          ELSE [TempCache |-> st2.TempCache, UserCache |-> st2.UserCache,
                nextId |-> st2.nextId, err |-> ErrBinding,
                w |-> ErrorResponse(0, "", session)]

(* The outcome of a handler: the new caches, the response and the          *)
(* collaborators it called, in order.                                      *)
Outcome(st, w0, log) ==
  [TempCache |-> st.TempCache, UserCache |-> st.UserCache, nextId |-> st.nextId,
   w |-> w0, calls |-> log]

(* A call of a collaborator, with the user it was given. *)
Call(op) == [op |-> op, user |-> NoUser]

CallWith(op, user) == [op |-> op, user |-> user]

(* The SSO handler reports the error respond returned, or keeps what       *)
(* respond wrote.                                                          *)
Responded(o, user, log) ==
  With(o, LAMBDA res :
    Outcome(res, IF res.err # "" THEN ErrorResponse(400, res.err, res.w.cookie) ELSE res.w,
            Append(log, CallWith("respond", user))))

(* LoginType *)
CertificateLogin == 0

PasswordLoginType == 1

(* Auditor.LogSuccess(user, authnReq, loginType), as a call in the log. *)
LogSuccess(user, loginType) == [op |-> "LogSuccess", user |-> user, loginType |-> loginType]

(* model.Attribute *)
Attribute(name, value) == [Name |-> name, Value |-> value]

(* simpleSource.AddAttributes: the attributes configured for the user's    *)
(* name are appended to the user's.                                        *)
AddAttributes(source, user) ==
  IF user.Name \in DOMAIN source.users
  THEN [user EXCEPT !.Attributes = @ \o source.users[user.Name]]
  ELSE user

(* setUserAttributes: every source of the chain in order; the error of the *)
(* first source that fails (fault: a source fails).                        *)
RECURSIVE setUserAttributes(_, _, _)
setUserAttributes(sources, user, fault) ==
  IF sources = <<>> THEN [user |-> user, err |-> ""]
  ELSE IF fault = "AddAttributes" THEN [user |-> NoUser, err |-> ErrAttributes]
  ELSE setUserAttributes(Tail(sources), AddAttributes(Head(sources), user), fault)

(* loginWithCert as it would be if the attribute sources were not asked.   *)
loginWithCert_NoSources(rq, authnReq) ==
  IF getCertFromRequest(rq) = ""
  THEN [user |-> NoUser, err |-> "", log |-> <<Call("getCertFromRequest")>>]
  ELSE
  LET user == [Name |-> getCertFromRequest(rq), Format |-> FormatX509,
               Context |-> ContextX509, Attributes |-> <<>>]
  IN  [user |-> user, err |-> "",
       log |-> <<Call("getCertFromRequest"), LogSuccess(user, CertificateLogin)>>]

(* loginWithCert as it would be if the audit record were written before    *)
(* the attribute sources are asked.                                        *)
loginWithCert_AuditFirst(rq, authnReq) ==
  IF getCertFromRequest(rq) = ""
  THEN [user |-> NoUser, err |-> "", log |-> <<Call("getCertFromRequest")>>]
  ELSE
  LET user == [Name |-> getCertFromRequest(rq), Format |-> FormatX509,
               Context |-> ContextX509, Attributes |-> <<>>]
      sa   == setUserAttributes(rq.Sources, user, rq.Fault)
  IN  IF sa.err # ""
      THEN [user |-> NoUser, err |-> sa.err,
            log |-> <<Call("getCertFromRequest"), LogSuccess(user, CertificateLogin),
                      CallWith("setUserAttributes", user)>>]
      ELSE [user |-> sa.user, err |-> "",
            log |-> <<Call("getCertFromRequest"), LogSuccess(user, CertificateLogin),
                      CallWith("setUserAttributes", user)>>]

(* loginWithCert: the user of the client certificate with the attributes   *)
(* of the chain rq.Sources of the IDP, NoUser without a certificate; err   *)
(* when an attribute source fails.                                         *)
loginWithCert(rq, authnReq) ==
  IF getCertFromRequest(rq) = ""
  THEN [user |-> NoUser, err |-> "", log |-> <<Call("getCertFromRequest")>>]
  ELSE
  LET user == [Name |-> getCertFromRequest(rq), Format |-> FormatX509,
               Context |-> ContextX509, Attributes |-> <<>>]
      sa   == setUserAttributes(rq.Sources, user, rq.Fault)
  IN  IF sa.err # ""
      THEN [user |-> NoUser, err |-> sa.err,
            log |-> <<Call("getCertFromRequest"), CallWith("setUserAttributes", user)>>]
      ELSE [user |-> sa.user, err |-> "",
            log |-> <<Call("getCertFromRequest"), CallWith("setUserAttributes", user),
                      LogSuccess(sa.user, CertificateLogin)>>]

(* The SSO handler once the request is validated, as it would be if the    *)
(* client certificate were looked at before the session.                   *)
authenticate_CertFirst(st, rq, saveableRequest, log0) ==
  LET cl   == loginWithCert(rq, saveableRequest)
      log1 == log0 \o cl.log
  IN  IF cl.user # NoUser
      THEN Responded(respond(st, saveableRequest, cl.user, rq), cl.user, log1)
      ELSE IF cl.err # "" THEN Outcome(st, ErrorResponse(400, cl.err, NoKey), log1)
      ELSE
      LET sessionUser == getUserFromSession(st, rq)
          log2        == Append(log1, Call("getUserFromSession"))
      IN  IF sessionUser # NoUser
          THEN Responded(respond(st, saveableRequest, sessionUser, rq), sessionUser, log2)
          ELSE
          LET id  == UUID(st.nextId)
              st1 == [st EXCEPT !.nextId = @ + 1]
          IN  IF rq.Fault = "TempCache.Set"
              THEN Outcome(st1, ErrorResponse(400, ErrCacheSet, NoKey), log2)
              ELSE Outcome(
                     [st1 EXCEPT !.TempCache =
                        CacheSet(@, id, [request |-> saveableRequest, user |-> NoUser])],
                     [status |-> 307, body |-> "", cookie |-> NoKey,
                      location |-> [to |-> LoginPage, key |-> id, relay |-> <<>>],
                      aborted |-> FALSE],
                     log2)

(* The SSO handler once the request is validated: an existing session, a   *)
(* client certificate, or the login form.                                  *)
authenticate(st, rq, saveableRequest, log0) ==
  LET sessionUser == getUserFromSession(st, rq)
      log1        == Append(log0, Call("getUserFromSession"))
  IN  IF sessionUser # NoUser
      THEN Responded(respond(st, saveableRequest, sessionUser, rq), sessionUser, log1)
      ELSE
      LET cl   == loginWithCert(rq, saveableRequest)
          log2 == log1 \o cl.log
      IN  IF cl.user # NoUser
          THEN Responded(respond(st, saveableRequest, cl.user, rq), cl.user, log2)
          ELSE IF cl.err # "" THEN Outcome(st, ErrorResponse(400, cl.err, NoKey), log2)
          ELSE
          LET id  == UUID(st.nextId)
              st1 == [st EXCEPT !.nextId = @ + 1]
          IN  IF rq.Fault = "TempCache.Set"
              THEN Outcome(st1, ErrorResponse(400, ErrCacheSet, NoKey), log2)
              ELSE Outcome(
                     [st1 EXCEPT !.TempCache =
                        CacheSet(@, id, [request |-> saveableRequest, user |-> NoUser])],
                     [status |-> 307, body |-> "", cookie |-> NoKey,
                      location |-> [to |-> LoginPage, key |-> id, relay |-> <<>>],
                      aborted |-> FALSE],
                     log2)

(* The length check as it would be with >= for >. *)
relayStateTooLong_AtLeast(relayState) == len(relayState) >= MaxRelayState

(* len(relayState) > 80 *)
relayStateTooLong(relayState) == len(relayState) > MaxRelayState

(* The handler as it would be if the result of validateAuthRequest were    *)
(* only logged.                                                            *)
DefaultRedirectSSOHandler_ValidationIgnored(registry, st, rq) ==
  With(ParseForm(rq.RawQuery), LAMBDA form :
  With(FormGet(form, KRelayState), LAMBDA relayState :
  With(FormGet(form, KSAMLRequest), LAMBDA samlReq :
  LET loginReq   == XmlOf(samlReq)
      Fail(msg, log) == Outcome(st, ErrorResponse(400, msg, NoKey), log)
  IN  IF form.err THEN Fail(ErrEscape, <<>>)
      ELSE IF relayStateTooLong(relayState) THEN Fail(ErrRelayState, <<>>)
      ELSE IF ~B64Ok(samlReq) THEN Fail(ErrBase64, <<Call("DecodeString")>>)
      ELSE IF loginReq.wf # "ok" THEN Fail(ErrXML, <<Call("DecodeString")>>)
      ELSE
      With(validateAuthRequest(registry, loginReq, rq.RawQuery, form), LAMBDA v :
      LET log0 == <<Call("DecodeString"), Call("validateAuthRequest")>>
      IN  authenticate(st, rq, NewAuthnRequest(v.request, relayState), log0)))))

(* DefaultRedirectSSOHandler, from ParseForm to the response. *)
DefaultRedirectSSOHandler(registry, st, rq) ==
  With(ParseForm(rq.RawQuery), LAMBDA form :
  With(FormGet(form, KRelayState), LAMBDA relayState :
  With(FormGet(form, KSAMLRequest), LAMBDA samlReq :
  LET loginReq   == XmlOf(samlReq)
      Fail(msg, log) == Outcome(st, ErrorResponse(400, msg, NoKey), log)
  IN  IF form.err THEN Fail(ErrEscape, <<>>)
      ELSE IF relayStateTooLong(relayState) THEN Fail(ErrRelayState, <<>>)
      ELSE IF ~B64Ok(samlReq) THEN Fail(ErrBase64, <<Call("DecodeString")>>)
      ELSE IF loginReq.wf # "ok" THEN Fail(ErrXML, <<Call("DecodeString")>>)
      ELSE
      With(validateAuthRequest(registry, loginReq, rq.RawQuery, form), LAMBDA v :
      LET log0 == <<Call("DecodeString"), Call("validateAuthRequest")>>
      IN  IF v.err = Panic THEN Outcome(st, AbortedResponse, log0)
          ELSE IF v.err # "" THEN Fail(v.err, log0)
          ELSE authenticate(st, rq, NewAuthnRequest(v.request, relayState), log0)))))

(***************************************************************************)
(* Password login: the POST of the login form.                             *)
(***************************************************************************)
ErrInvalidPassword == "invalid login or password"

ErrTryAgain == "invalid login or password. Please try again"

(* What Get returns for a key the cache does not hold. *)
ErrNotFound == "NotFound"

FormatUnspecified == "urn:oasis:names:tc:SAML:1.1:nameid-format:unspecified"

ContextPassword == "urn:oasis:names:tc:SAML:2.0:ac:classes:PasswordProtectedTransport"

Bob == "bob"

(* The accounts the directory behind the validator accepts. *)
Credentials == {<<Bob, "secret">>}

ErrNoDN == "can not find user's DN"

ErrNoSuchObject == "No Such Object"

(* The attributes Authenticate asks the directory for. *)
LdapAttributes == <<"cn", "gidNumber", "memberUid", "uid", "uidNumber", "mail">>

(* The entries of the directory, by cn; the last pair of users shares the  *)
(* name under two DNs.                                                     *)
Directory ==
  (Bob :> <<[DN |-> "cn=bob,ou=people", cn |-> Bob,
             values |-> ("cn" :> <<Bob>>) @@ ("uid" :> <<"1000">>)
                        @@ ("mail" :> <<"bob@example">>)]>>)

(* conn.Search with the filter (cn=username). *)
Search(username) == IF username \in DOMAIN Directory THEN Directory[username] ELSE <<>>

(* getConn: dial and simple bind as dn; TRUE when both succeed. ldap is    *)
(* the condition of the directory service while the request is served.     *)
getConn(ldap, entry, password) ==
  /\ ldap \notin {"ldap.DialURL", "ldap.DialUser"}
  /\ password # ""
  /\ <<entry.cn, password>> \in Credentials

(* sendRequest: a connection bound as the administrator, then the search.  *)
sendRequest(ldap, username) ==
  IF ldap \in {"ldap.DialURL", "ldap.AdminBind", "ldap.Search"}
  THEN [err |-> TRUE, Entries |-> <<>>]
  ELSE [err |-> FALSE, Entries |-> Search(username)]

(* entry.GetAttributeValues for every attribute asked for. *)
getAttributes(entry) ==
  [a \in {LdapAttributes[i] : i \in 1..Len(LdapAttributes)} |->
     IF a \in DOMAIN entry.values THEN entry.values[a] ELSE <<>>]

NoAttrs == [a \in {} |-> <<>>]

(* LdapClient.Authenticate: the attributes of the first entry found under  *)
(* the name that binds with the password.                                  *)
Authenticate(ldap, username, password) ==
  LET result == sendRequest(ldap, username)
      bound  == {i \in 1..Len(result.Entries) : getConn(ldap, result.Entries[i], password)}
  IN  IF result.err THEN [attrs |-> NoAttrs, err |-> ErrNoDN]
      ELSE IF bound = {} THEN [attrs |-> NoAttrs, err |-> ErrNoSuchObject]
      ELSE [attrs |-> getAttributes(result.Entries[CHOOSE i \in bound : \A j \in bound : i <= j]),
            err |-> ""]

(* PasswordValidator.Validate of the default validator. *)
Validate(ldap, user, password) == Authenticate(ldap, user, password)

(* buildAttributes: one attribute per key of the map, in the order the     *)
(* iteration over the map happens to take.                                 *)
buildAttributes(attrs, order) ==
  [i \in 1..Len(order) |-> Attribute(order[i], attrs[order[i]])]

(* url.QueryEscape on the messages the handler redirects with: a space     *)
(* becomes +, letters and the full stop stay.                              *)
QueryEscape(msg) ==
  CASE msg = ErrTryAgain -> "invalid+login+or+password.+Please+try+again"
    [] msg = ErrBinding  -> "unsupported+protocol+binding"
    [] msg = ErrCacheSet -> "cache+set+failed"
    [] OTHER             -> msg

(* loginWithPasswordForm as it would be if the audit record were written   *)
(* before the validator is asked.                                          *)
loginWithPasswordForm_AuditFirst(rq, authnReq) ==
  With(Validate(rq.Ldap, rq.Username, rq.Password), LAMBDA v :
  LET user == [Name |-> rq.Username, Format |-> FormatUnspecified,
               Context |-> ContextPassword,
               Attributes |-> IF v.err # "" THEN <<>>
                              ELSE buildAttributes(v.attrs, rq.MapOrder)]
  IN  IF v.err # ""
      THEN [user |-> NoUser, err |-> ErrInvalidPassword,
            log |-> <<LogSuccess(user, PasswordLoginType), Call("Validate")>>]
      ELSE [user |-> user, err |-> "",
            log |-> <<LogSuccess(user, PasswordLoginType), Call("Validate")>>])

(* loginWithPasswordForm as it would be if the error of a directory that   *)
(* cannot be searched were returned as it is.                              *)
loginWithPasswordForm_SurfaceOutage(rq, authnReq) ==
  With(Validate(rq.Ldap, rq.Username, rq.Password), LAMBDA v :
  IF v.err # ""
  THEN [user |-> NoUser, err |-> IF v.err = ErrNoDN THEN v.err ELSE ErrInvalidPassword,
        log |-> <<Call("Validate")>>]
  ELSE
  LET user == [Name |-> rq.Username, Format |-> FormatUnspecified,
               Context |-> ContextPassword,
               Attributes |-> buildAttributes(v.attrs, rq.MapOrder)]
  IN  [user |-> user, err |-> "",
       log |-> <<Call("Validate"), LogSuccess(user, PasswordLoginType)>>])

(* loginWithPasswordForm: the user of the form, with the attributes the    *)
(* validator returned, when the validator accepts the credentials;         *)
(* ErrInvalidPassword whatever the validator's error.                      *)
loginWithPasswordForm(rq, authnReq) ==
  With(Validate(rq.Ldap, rq.Username, rq.Password), LAMBDA v :
  IF v.err # ""
  THEN [user |-> NoUser, err |-> ErrInvalidPassword, log |-> <<Call("Validate")>>]
  ELSE
  LET user == [Name |-> rq.Username, Format |-> FormatUnspecified,
               Context |-> ContextPassword,
               Attributes |-> buildAttributes(v.attrs, rq.MapOrder)]
  IN  [user |-> user, err |-> "",
       log |-> <<Call("Validate"), LogSuccess(user, PasswordLoginType)>>])

(* http.Redirect to the login page with the request id and the error; the  *)
(* headers already set on the response go out with it.                     *)
LoginRedirect(requestID, msg, cookie) ==
  [status |-> 302, body |-> "", cookie |-> cookie,
   location |-> [to |-> LoginPage, key |-> requestID, relay |-> <<>>,
                 error |-> QueryEscape(msg)],
   aborted |-> FALSE]

(* A handler that returns without writing: net/http answers 200 with an   *)
(* empty body.                                                             *)
NothingWritten ==
  [status |-> 200, body |-> "", cookie |-> NoKey, location |-> NoLocation, aborted |-> FALSE]

(* The password handler as it would be if respond were called whatever     *)
(* loginWithPasswordForm returned.                                         *)
DefaultPasswordLoginHandler_RespondAlways(st, rq) ==
  LET requestID == rq.RequestId
      log0      == <<Call("TempCache.Get")>>
  IN  IF rq.FormErr THEN Outcome(st, ErrorResponse(500, ErrEscape, NoKey), <<>>)
      ELSE IF ~CacheHas(st.TempCache, requestID)
      THEN Outcome(st, LoginRedirect(requestID, ErrNotFound, NoKey), log0)
      ELSE
      With(st.TempCache[requestID].request, LAMBDA req :
      With(loginWithPasswordForm(rq, req), LAMBDA pl :
      With(respond(st, req, pl.user, rq), LAMBDA res :
        Outcome(res,
                IF res.err # ""
                THEN LoginRedirect(requestID, res.err, res.w.cookie)
                ELSE res.w,
                log0 \o pl.log \o <<CallWith("respond", pl.user)>>))))

(* DefaultPasswordLoginHandler, from ParseForm to the response. *)
DefaultPasswordLoginHandler(st, rq) ==
  LET requestID == rq.RequestId
      log0      == <<Call("TempCache.Get")>>
  IN  IF rq.FormErr THEN Outcome(st, ErrorResponse(500, ErrEscape, NoKey), <<>>)
      ELSE IF ~CacheHas(st.TempCache, requestID)
      THEN Outcome(st, LoginRedirect(requestID, ErrNotFound, NoKey), log0)
      ELSE
      With(st.TempCache[requestID].request, LAMBDA req :
      With(loginWithPasswordForm(rq, req), LAMBDA pl :
        IF pl.user # NoUser
        THEN With(respond(st, req, pl.user, rq), LAMBDA res :
               Outcome(res,
                       IF res.err # ""
                       THEN LoginRedirect(requestID, res.err, res.w.cookie)
                       ELSE res.w,
                       log0 \o pl.log \o <<CallWith("respond", pl.user)>>))
        ELSE IF pl.err = ErrInvalidPassword
        THEN Outcome(st, LoginRedirect(requestID, ErrTryAgain, NoKey), log0 \o pl.log)
        ELSE Outcome(st, NothingWritten, log0 \o pl.log)))

(***************************************************************************)
(* Artifact resolution: the back-channel request of a service provider.    *)
(***************************************************************************)
(* The error of getCertFromRequest when the client presented no certificate. *)
ErrNoCert == "MissingClientCert"

ErrSigner == "signer failed"

StatusSuccess == "urn:oasis:names:tc:SAML:2.0:status:Success"

SenderVouches == "urn:oasis:names:tc:SAML:2.0:cm:sender-vouches"

Bearer == "urn:oasis:names:tc:SAML:2.0:cm:bearer"

NoSignature == [over |-> <<>>]

(* makeResponse: a Response in answer to id, with an assertion about user  *)
(* for the audience issuer.                                                *)
makeResponse(id, issuer, user) ==
  [InResponseTo |-> id, Status |-> StatusSuccess,
   Assertion |->
     [Subject |-> [Value |-> user.Name, Format |-> user.Format, SPNameQualifier |-> issuer,
                   Method |-> SenderVouches, InResponseTo |-> "", Recipient |-> ""],
      AttributeStatement |-> user.Attributes,
      Audience |-> issuer,
      AuthnContextClassRef |-> "",
      Signature |-> NoSignature]]

(* makeAuthnResponse: the response to a stored request, with the           *)
(* authentication statement and the bearer confirmation.                   *)
makeAuthnResponse(request, user) ==
  LET resp == makeResponse(request.ID, request.Issuer, user)
  IN  [resp EXCEPT !.Assertion.AuthnContextClassRef = user.Context,
                   !.Assertion.Subject.Method = Bearer,
                   !.Assertion.Subject.InResponseTo = request.ID,
                   !.Assertion.Subject.Recipient = request.AssertionConsumerServiceURL]

(* signer.CreateSignature: an enveloped signature over the assertion. *)
CreateSignature(assertion) == [over |-> <<assertion>>]

(* The resolution as it would be if the wrapper answered the stored        *)
(* request instead of the resolution request.                              *)
processArtifactResolutionRequest_AnswerStored(st, rq) ==
  IF ~rq.BodyOk THEN Outcome(st, ErrorResponse(500, ErrXML, NoKey), <<Call("xml.Decode")>>)
  ELSE IF ~CacheHas(st.TempCache, rq.Artifact)
  THEN Outcome(st, ErrorResponse(500, ErrNotFound, NoKey),
               <<Call("xml.Decode"), Call("TempCache.Get")>>)
  ELSE
  With(st.TempCache[rq.Artifact], LAMBDA artifactResponse :
  With(makeAuthnResponse(artifactResponse.request, artifactResponse.user), LAMBDA response :
  LET log == <<Call("xml.Decode"), Call("TempCache.Get"),
               CallWith("makeAuthnResponse", artifactResponse.user),
               Call("CreateSignature")>>
  IN  IF rq.Fault = "CreateSignature"
      THEN Outcome(st, ErrorResponse(500, ErrSigner, NoKey), log)
      ELSE Outcome(st,
                   [status |-> 200, body |-> "ArtifactResponse envelope", cookie |-> NoKey,
                    location |-> NoLocation, aborted |-> FALSE,
                    envelope |->
                      [InResponseTo |-> response.InResponseTo, Status |-> StatusSuccess,
                       Response |->
                         [response EXCEPT !.Assertion.Signature =
                                            CreateSignature(response.Assertion)]]],
                   log)))

(* processArtifactResolutionRequest: decode the envelope, look the         *)
(* artifact up, build the response to the stored request for the stored    *)
(* user, wrap it in answer to the resolution request and sign the          *)
(* assertion.                                                              *)
processArtifactResolutionRequest(st, rq) ==
  IF ~rq.BodyOk THEN Outcome(st, ErrorResponse(500, ErrXML, NoKey), <<Call("xml.Decode")>>)
  ELSE IF ~CacheHas(st.TempCache, rq.Artifact)
  THEN Outcome(st, ErrorResponse(500, ErrNotFound, NoKey),
               <<Call("xml.Decode"), Call("TempCache.Get")>>)
  ELSE
  With(st.TempCache[rq.Artifact], LAMBDA artifactResponse :
  With(makeAuthnResponse(artifactResponse.request, artifactResponse.user), LAMBDA response :
  LET log == <<Call("xml.Decode"), Call("TempCache.Get"),
               CallWith("makeAuthnResponse", artifactResponse.user),
               Call("CreateSignature")>>
  IN  IF rq.Fault = "CreateSignature"
      THEN Outcome(st, ErrorResponse(500, ErrSigner, NoKey), log)
      ELSE Outcome(st,
                   [status |-> 200, body |-> "ArtifactResponse envelope", cookie |-> NoKey,
                    location |-> NoLocation, aborted |-> FALSE,
                    envelope |->
                      [InResponseTo |-> rq.ID, Status |-> StatusSuccess,
                       Response |->
                         [response EXCEPT !.Assertion.Signature =
                                            CreateSignature(response.Assertion)]]],
                   log)))

(* The handler as it would be without transport authentication. *)
DefaultArtifactResolveHandler_NoTransportAuth(st, rq) ==
  processArtifactResolutionRequest(st, rq)

(* The handler as it would be if it served only the certificate of the     *)
(* registered provider.                                                    *)
DefaultArtifactResolveHandler_BoundToSP(st, rq) ==
  IF getCertFromRequest(rq) = ""
  THEN Outcome(st, ErrorResponse(401, ErrNoCert, NoKey), <<>>)
  ELSE IF getCertFromRequest(rq) # "CN=sp.example"
  THEN Outcome(st, ErrorResponse(403, ErrNoCert, NoKey), <<>>)
  ELSE processArtifactResolutionRequest(st, rq)

(* DefaultArtifactResolveHandler: transport authentication, then the       *)
(* resolution.                                                             *)
DefaultArtifactResolveHandler(st, rq) ==
  IF getCertFromRequest(rq) = ""
  THEN Outcome(st, ErrorResponse(401, ErrNoCert, NoKey), <<>>)
  ELSE processArtifactResolutionRequest(st, rq)

(***************************************************************************)
(* Single logout.                                                          *)
(***************************************************************************)
ErrNoSLO == "sp slo api not found"

ErrSLOMismatch == "slo in request does not match metadata"

(* The cookie http.SetCookie writes with MaxAge -1. *)
ClearedCookie == [t |-> "cleared", n |-> -1]

(* A saml.LogoutRequest as it reads from the wire. *)
LogoutRequestXML(issuer, url, binding) ==
  [wf |-> "logout", ID |-> "_out", Issuer |-> issuer, SingleLogoutServiceUrl |-> url,
   LogoutResponse |-> "", ProtocolBinding |-> binding]

(* validateLogoutRequest as it would be without the comparison of the      *)
(* request's URL with the metadata.                                        *)
validateLogoutRequest_NoLocationCheck(registry, request) ==
  IF request.Issuer = "" THEN [err |-> ErrNoIssuer, request |-> request]
  ELSE IF request.Issuer \notin DOMAIN registry
  THEN [err |-> ErrUnregistered, request |-> request]
  ELSE
  LET sp == registry[request.Issuer]
  IN  IF Len(sp.SingleLogoutServices) = 0 THEN [err |-> ErrNoSLO, request |-> request]
      ELSE
      LET slos == sp.SingleLogoutServices[1]
      IN  IF request.SingleLogoutServiceUrl = ""
          THEN [err |-> "",
                request |-> [request EXCEPT !.SingleLogoutServiceUrl = slos.Location,
                                            !.ProtocolBinding = slos.Binding]]
          ELSE [err |-> "", request |-> request]

(* validateLogoutRequest: err and the request as the function leaves it.   *)
validateLogoutRequest(registry, request) ==
  IF request.Issuer = "" THEN [err |-> ErrNoIssuer, request |-> request]
  ELSE IF request.Issuer \notin DOMAIN registry
  THEN [err |-> ErrUnregistered, request |-> request]
  ELSE
  LET sp == registry[request.Issuer]
  IN  IF Len(sp.SingleLogoutServices) = 0 THEN [err |-> ErrNoSLO, request |-> request]
      ELSE
      LET slos == sp.SingleLogoutServices[1]
      IN  IF request.SingleLogoutServiceUrl = ""
          THEN [err |-> "",
                request |-> [request EXCEPT !.SingleLogoutServiceUrl = slos.Location,
                                            !.ProtocolBinding = slos.Binding]]
          ELSE IF request.SingleLogoutServiceUrl # slos.Location
          THEN [err |-> ErrSLOMismatch, request |-> request]
          ELSE [err |-> "", request |-> request]

(* deleteUserFromSession as it would be if a logout ended every session.   *)
deleteUserFromSession_All(st, rq) ==
  IF rq.Cookie # NoKey /\ CacheHas(st.UserCache, rq.Cookie)
  THEN [st EXCEPT !.UserCache = EmptyCache]
  ELSE st

(* deleteUserFromSession: the entry of the session cookie goes, if the     *)
(* cache holds it.                                                         *)
deleteUserFromSession(st, rq) ==
  IF rq.Cookie # NoKey /\ CacheHas(st.UserCache, rq.Cookie)
  THEN [st EXCEPT !.UserCache = CacheDelete(@, rq.Cookie)]
  ELSE st

(* LogoutPost between the two html tags: a form that posts to the logout   *)
(* service.                                                                *)
LogoutPost(logoutReq) ==
  [status |-> 200, body |-> "logoutResponse form", cookie |-> ClearedCookie,
   location |-> [to |-> logoutReq.SingleLogoutServiceUrl, key |-> NoKey, relay |-> <<>>],
   aborted |-> FALSE]

(* The SLO handler as it would be if it dispatched on the binding the      *)
(* request was sent with.                                                  *)
DefaultRedirectSLOHandler_BindingAsSent(registry, st, rq) ==
  With(ParseForm(rq.RawQuery), LAMBDA form :
  With(FormGet(form, KSAMLRequest), LAMBDA samlReq :
  LET decoded == XmlOf(samlReq)
      Fail(msg, log) == Outcome(st, ErrorResponse(400, msg, NoKey), log)
  IN  IF form.err THEN Fail(ErrEscape, <<>>)
      ELSE IF ~B64Ok(samlReq) THEN Fail(ErrBase64, <<Call("DecodeString")>>)
      ELSE IF decoded.wf # "logout" THEN Fail(ErrXML, <<Call("DecodeString")>>)
      ELSE
      With(validateLogoutRequest(registry, decoded), LAMBDA v :
      LET log0 == <<Call("DecodeString"), Call("validateLogoutRequest")>>
          log1 == Append(log0, Call("deleteUserFromSession"))
          st1  == deleteUserFromSession(st, rq)
      IN  IF v.err # "" THEN Fail(v.err, log0)
          ELSE IF decoded.ProtocolBinding = BindingPOST
          THEN Outcome(st1, LogoutPost(v.request), log1)
          ELSE IF decoded.ProtocolBinding = BindingRedirect
          THEN Outcome(st1,
                       [status |-> 302, body |-> "", cookie |-> ClearedCookie,
                        location |-> [to |-> v.request.SingleLogoutServiceUrl,
                                      key |-> NoKey, relay |-> <<>>],
                        aborted |-> FALSE],
                       log1)
          ELSE Outcome(st1, ErrorResponse(400, ErrBinding, ClearedCookie), log1))))

(* The SLO handler as it would be if it looked at the binding before it    *)
(* ended the session.                                                      *)
DefaultRedirectSLOHandler_DispatchFirst(registry, st, rq) ==
  With(ParseForm(rq.RawQuery), LAMBDA form :
  With(FormGet(form, KSAMLRequest), LAMBDA samlReq :
  LET decoded == XmlOf(samlReq)
      Fail(msg, log) == Outcome(st, ErrorResponse(400, msg, NoKey), log)
  IN  IF form.err THEN Fail(ErrEscape, <<>>)
      ELSE IF ~B64Ok(samlReq) THEN Fail(ErrBase64, <<Call("DecodeString")>>)
      ELSE IF decoded.wf # "logout" THEN Fail(ErrXML, <<Call("DecodeString")>>)
      ELSE
      With(validateLogoutRequest(registry, decoded), LAMBDA v :
      LET log0 == <<Call("DecodeString"), Call("validateLogoutRequest")>>
          log1 == Append(log0, Call("deleteUserFromSession"))
          st1  == deleteUserFromSession(st, rq)
      IN  IF v.err # "" THEN Fail(v.err, log0)
          ELSE IF v.request.ProtocolBinding = BindingPOST
          THEN Outcome(st1, LogoutPost(v.request), log1)
          ELSE IF v.request.ProtocolBinding = BindingRedirect
          THEN Outcome(st1,
                       [status |-> 302, body |-> "", cookie |-> ClearedCookie,
                        location |-> [to |-> v.request.SingleLogoutServiceUrl,
                                      key |-> NoKey, relay |-> <<>>],
                        aborted |-> FALSE],
                       log1)
          ELSE Fail(ErrBinding, log0))))

(* The handler as it would be if a logout request had to carry a valid     *)
(* signature of its issuer.                                                *)
DefaultRedirectSLOHandler_VerifiesSignature(registry, st, rq) ==
  With(ParseForm(rq.RawQuery), LAMBDA form :
  With(FormGet(form, KSAMLRequest), LAMBDA samlReq :
  LET decoded == XmlOf(samlReq)
      Fail(msg, log) == Outcome(st, ErrorResponse(400, msg, NoKey), log)
  IN  IF form.err THEN Fail(ErrEscape, <<>>)
      ELSE IF ~B64Ok(samlReq) THEN Fail(ErrBase64, <<Call("DecodeString")>>)
      ELSE IF decoded.wf # "logout" THEN Fail(ErrXML, <<Call("DecodeString")>>)
      ELSE
      With(validateLogoutRequest(registry, decoded), LAMBDA v :
      LET log0 == <<Call("DecodeString"), Call("validateLogoutRequest")>>
          log1 == Append(log0, Call("deleteUserFromSession"))
          st1  == deleteUserFromSession(st, rq)
      IN  IF v.err # "" THEN Fail(v.err, log0)
          ELSE
          With(verifySignature(rq.RawQuery, FormGet(form, KSigAlg), FormGet(form, KSignature),
                               registry[decoded.Issuer]),
               LAMBDA vs :
          IF vs.err # "" THEN Fail(vs.err, Append(log0, Call("verifySignature")))
          ELSE IF v.request.ProtocolBinding = BindingPOST
          THEN Outcome(st1, LogoutPost(v.request), log1)
          ELSE IF v.request.ProtocolBinding = BindingRedirect
          THEN Outcome(st1,
                       [status |-> 302, body |-> "", cookie |-> ClearedCookie,
                        location |-> [to |-> v.request.SingleLogoutServiceUrl,
                                      key |-> NoKey, relay |-> <<>>],
                        aborted |-> FALSE],
                       log1)
          ELSE Outcome(st1, ErrorResponse(400, ErrBinding, ClearedCookie), log1)))))

(* DefaultRedirectSLOHandler, from ParseForm to the response. *)
DefaultRedirectSLOHandler(registry, st, rq) ==
  With(ParseForm(rq.RawQuery), LAMBDA form :
  With(FormGet(form, KSAMLRequest), LAMBDA samlReq :
  LET decoded == XmlOf(samlReq)
      Fail(msg, log) == Outcome(st, ErrorResponse(400, msg, NoKey), log)
  IN  IF form.err THEN Fail(ErrEscape, <<>>)
      ELSE IF ~B64Ok(samlReq) THEN Fail(ErrBase64, <<Call("DecodeString")>>)
      ELSE IF decoded.wf # "logout" THEN Fail(ErrXML, <<Call("DecodeString")>>)
      ELSE
      With(validateLogoutRequest(registry, decoded), LAMBDA v :
      LET log0 == <<Call("DecodeString"), Call("validateLogoutRequest")>>
          log1 == Append(log0, Call("deleteUserFromSession"))
          st1  == deleteUserFromSession(st, rq)
      IN  IF v.err # "" THEN Fail(v.err, log0)
          ELSE IF v.request.ProtocolBinding = BindingPOST
          THEN Outcome(st1, LogoutPost(v.request), log1)
          ELSE IF v.request.ProtocolBinding = BindingRedirect
          THEN Outcome(st1,
                       [status |-> 302, body |-> "", cookie |-> ClearedCookie,
                        location |-> [to |-> v.request.SingleLogoutServiceUrl,
                                      key |-> NoKey, relay |-> <<>>],
                        aborted |-> FALSE],
                       log1)
          ELSE Outcome(st1, ErrorResponse(400, ErrBinding, ClearedCookie), log1))))

(***************************************************************************)
(* Spec: the identity provider serving requests.                           *)
(***************************************************************************)
SloLoc == "https://sp.example/slo"

Loc3 == "https://sp2.example/acs"

Registry ==
  (SP1 :> MakeSP(SP1,
            <<[Index |-> 0, IsDefault |-> TRUE, Binding |-> BindingPOST, Location |-> Loc1],
              [Index |-> 1, IsDefault |-> FALSE, Binding |-> BindingArtifact, Location |-> Loc2]>>,
            <<[Index |-> 0, IsDefault |-> FALSE, Binding |-> BindingPOST, Location |-> SloLoc]>>,
            Key1))
  @@
  (SP2 :> MakeSP(SP2,
            <<[Index |-> 0, IsDefault |-> TRUE, Binding |-> BindingPOST, Location |-> Loc3]>>,
            <<>>,
            Key2))

Alice == "CN=alice,O=example"

Relay80 == <<Tok("<80 octets>", 80)>>

Relay81 == <<Tok("<81 octets>", 81)>>

(* The key a registered issuer signs with, and its usual algorithm. *)
KeyOf(issuer) == IF issuer = SP2 THEN Key2 ELSE Key1

UsualAlg(key) == IF key.type = "dsa" THEN DsaSha1 ELSE RsaSha256

(* The redirect query an issuer sends for xml, correctly signed. *)
HonestQuery(xml, relay) ==
  SignedQuery(<<ReqTok(xml)>>, relay, UsualAlg(KeyOf(xml.Issuer)), KeyOf(xml.Issuer))

(* The users key of the configuration, read by DefaultAttributeSource. *)
ConfiguredUsers ==
  (Alice :> <<Attribute("role", <<"engineer">>)>>) @@ (Bob :> <<Attribute("role", <<"staff">>)>>)

(* DefaultAttributeSource: a simpleSource over the configured users. *)
DefaultAttributeSource == [users |-> ConfiguredUsers]

(* IDP.AttributeSources as the embedder leaves it: nil, or a list. *)
NoSources == [nil |-> TRUE, list |-> <<>>]

SourceList(list) == [nil |-> FALSE, list |-> list]

(* configureAttributeSources: the chain of the IDP. *)
configureAttributeSources(given) ==
  IF given.nil THEN <<DefaultAttributeSource>> ELSE given.list

(* A request to the SSO endpoint, with what the IDP that serves it is      *)
(* configured with (Sources) and the collaborator that fails meanwhile.    *)
SSORequest(query, cookie, cert, fault) ==
  [kind |-> "sso", RawQuery |-> query, Cookie |-> cookie, Cert |-> cert, Fault |-> fault,
   Sources |-> configureAttributeSources(NoSources)]

Faults == {"AddAttributes", "TempCache.Set", "UserCache.Set"}

Bindings == {BindingArtifact, BindingPOST, BindingPAOS, BindingRedirect}

(* The queries of Spec: honest ones for every binding, and one for each    *)
(* way a request is turned down.                                           *)
HonestQueries ==
  {HonestQuery(AuthnRequestXML("_abc", SP1, "", b, 0), <<>>) : b \in Bindings}
    \cup {HonestQuery(AuthnRequestXML("_abc", SP2, "", BindingPOST, 0), <<>>),
          HonestQuery(AuthnRequestXML("_abc", SP1, "", BindingPOST, 0), <<Relay80>>)}

RejectedQueries ==
  {HonestQuery(AuthnRequestXML("_abc", Evil, "", BindingPOST, 0), <<>>),
   HonestQuery(AuthnRequestXML("_abc", "", "", BindingPOST, 0), <<>>),
   HonestQuery(AuthnRequestXML("_abc", SP1, EvilLoc, BindingPOST, 0), <<>>),
   HonestQuery(AuthnRequestXML("_abc", SP1, "", BindingPOST, 0), <<Relay81>>),
   SignedQuery(<<ReqTok(AuthnRequestXML("_abc", SP1, "", BindingPOST, 0))>>, <<>>,
               RsaSha256, Key2),
   SignedQuery(<<ReqTok(AuthnRequestXML("_abc", SP2, "", BindingPOST, 0))>>, <<>>,
               RsaSha1, Key2)}

(* Honest requests with a session cookie or a client certificate; the two  *)
(* that lead to the login form; the rejected ones; requests served while  *)
(* a collaborator fails; and one presenting a session while UserCache.Set *)
(* fails.                                                                 *)
SSORequests ==
  {SSORequest(q, cookie, cert, "") :
     q \in HonestQueries, cookie \in {NoKey, UUID(1)}, cert \in {Alice}}
  \cup
  {SSORequest(HonestQuery(AuthnRequestXML("_abc", SP1, "", b, 0), <<>>), cookie, "", "") :
     b \in {BindingArtifact, BindingPOST, BindingRedirect}, cookie \in {NoKey, UUID(1)}}
  \cup
  {SSORequest(q, NoKey, "", "") : q \in RejectedQueries}
  \cup
  {SSORequest(HonestQuery(AuthnRequestXML("_abc", SP1, "", b, 0), <<>>), NoKey, cert, fault) :
     b \in {BindingArtifact, BindingPOST}, cert \in {"", Alice}, fault \in Faults}
  \cup
  {SSORequest(HonestQuery(AuthnRequestXML("_abc", SP1, "", BindingPOST, 0), <<>>),
              UUID(1), "", "UserCache.Set")}

(* The login form posted, with the condition of the directory service     *)
(* (Ldap) and the order the validator's attribute map is iterated in       *)
(* (MapOrder) while it is served.                                          *)
PasswordRequest(requestId, username, password, formErr, fault) ==
  [kind |-> "password", RequestId |-> requestId, Username |-> username,
   Password |-> password, FormErr |-> formErr, Fault |-> fault,
   Ldap |-> "", MapOrder |-> LdapAttributes]

(* The login form posted with the right and with a wrong password, for     *)
(* every request id the process can have issued; once while UserCache.Set  *)
(* fails; and a body that does not parse.                                  *)
PasswordRequests ==
  {PasswordRequest(UUID(n), Bob, pw, FALSE, "") : n \in 1..MaxIds, pw \in {"secret", "wrong"}}
  \cup {PasswordRequest(UUID(1), Bob, "secret", FALSE, "UserCache.Set"),
        PasswordRequest(UUID(1), Bob, "secret", TRUE, "")}

SPCert == "CN=sp.example"

(* An ArtifactResolve envelope as it reads from the wire, with the TLS     *)
(* peer certificate of the connection.                                     *)
ResolveRequest(id, artifact, cert, bodyOk, fault) ==
  [kind |-> "resolve", ID |-> id, Artifact |-> artifact, Cert |-> cert, BodyOk |-> bodyOk,
   Fault |-> fault]

(* The subject of a certificate that belongs to no registered provider. *)
OtherCert == "CN=other.example"

(* The client certificates a resolution request is presented with. *)
ClientCerts == {SPCert, OtherCert}

(* Resolutions of every artifact the process can have issued (a session   *)
(* id is drawn before each artifact, so the first artifact is the second  *)
(* id), under each client certificate; one with another ID; one without a *)
(* client certificate, one whose body does not decode, one while the      *)
(* signer fails.                                                          *)
ResolveRequests ==
  {ResolveRequest("_res1", getArtifact(n), c, TRUE, "") :
     n \in 2..(MaxIds + 1), c \in ClientCerts}
  \cup {ResolveRequest("_res2", getArtifact(2), SPCert, TRUE, ""),
        ResolveRequest("_res1", getArtifact(2), "", TRUE, ""),
        ResolveRequest("_res1", getArtifact(2), SPCert, FALSE, ""),
        ResolveRequest("_res1", getArtifact(2), SPCert, TRUE, "CreateSignature")}

(* The redirect query carrying a logout request; nothing checks a          *)
(* signature on it.                                                        *)
LogoutQuery(xml) == KSAMLRequest \o <<Eq, ReqTok(xml)>>

SLORequest(query, cookie) ==
  [kind |-> "slo", RawQuery |-> query, Cookie |-> cookie, Cert |-> "", Fault |-> ""]

(* Logout requests of the provider with a logout service, for every        *)
(* session the process can have issued, and the ways one is turned down.   *)
SLORequests ==
  {SLORequest(LogoutQuery(LogoutRequestXML(SP1, "", BindingPOST)), UUID(n)) : n \in 1..MaxIds}
  \cup
  {SLORequest(LogoutQuery(LogoutRequestXML(SP1, SloLoc, b)), UUID(1)) :
     b \in {BindingRedirect, BindingArtifact}}
  \cup
  {SLORequest(LogoutQuery(LogoutRequestXML(issuer, url, BindingPOST)), UUID(1)) :
     issuer \in {"", Evil, SP1, SP2}, url \in {EvilLoc}}

StateOf == [TempCache |-> TempCache, UserCache |-> UserCache, nextId |-> nextId]

(* One request served by the SSO handler. *)
SSOStep(rq) ==
  /\ \E o \in {DefaultRedirectSSOHandler(sps, StateOf, rq)} :
         /\ TempCache' = o.TempCache
         /\ UserCache' = o.UserCache
         /\ nextId' = o.nextId
         /\ w' = o.w
         /\ calls' = o.calls
  /\ r' = rq
  /\ UNCHANGED <<sps, args, ret>>

RedirectSSO ==
  /\ nextId <= MaxIds
  /\ \E rq \in SSORequests : SSOStep(rq)

(* The outcome of a handler becomes the state; rq is the request served.   *)
Serve(o, rq) ==
  /\ TempCache' = o.TempCache
  /\ UserCache' = o.UserCache
  /\ nextId' = o.nextId
  /\ w' = o.w
  /\ calls' = o.calls
  /\ r' = rq
  /\ UNCHANGED <<sps, args, ret>>

(* One login form posted. *)
PasswordLogin ==
  /\ nextId <= MaxIds
  /\ \E rq \in PasswordRequests :
       \E o \in {DefaultPasswordLoginHandler(StateOf, rq)} : Serve(o, rq)

(* One artifact resolution request. *)
ArtifactResolve ==
  \E rq \in ResolveRequests :
    \E o \in {DefaultArtifactResolveHandler(StateOf, rq)} : Serve(o, rq)

(* One logout request. *)
RedirectSLO ==
  \E rq \in SLORequests :
    \E o \in {DefaultRedirectSLOHandler(sps, StateOf, rq)} : Serve(o, rq)

(* The TTL of a TempCache entry elapses. *)
ExpireTemp ==
  /\ \E k \in DOMAIN TempCache : TempCache' = CacheDelete(TempCache, k)
  /\ UNCHANGED <<sps, UserCache, nextId, r, w, calls, args, ret>>

(* The TTL of a UserCache entry elapses. *)
ExpireUser ==
  /\ \E k \in DOMAIN UserCache : UserCache' = CacheDelete(UserCache, k)
  /\ UNCHANGED <<sps, TempCache, nextId, r, w, calls, args, ret>>

Init ==
  /\ sps = Registry
  /\ TempCache = EmptyCache /\ UserCache = EmptyCache /\ nextId = 1
  /\ r = NoRequest /\ w = NoResponse /\ calls = <<>>
  /\ args = <<>> /\ ret = NoRet

Next ==
  \/ RedirectSSO
  \/ PasswordLogin
  \/ ArtifactResolve
  \/ RedirectSLO
  \/ ExpireTemp
  \/ ExpireUser

Spec == Init /\ [][Next]_vars

(***************************************************************************)
(* SpecSSO: one request served by the SSO handler, for every request of a  *)
(* wide set, from the state after construction and from states left by     *)
(* earlier logins.                                                         *)
(***************************************************************************)
Constructed == [TempCache |-> EmptyCache, UserCache |-> EmptyCache, nextId |-> 1]

After(st, rq) ==
  With(st, LAMBDA st0 :
  With(DefaultRedirectSSOHandler(Registry, st0, rq), LAMBDA o :
    [TempCache |-> o.TempCache, UserCache |-> o.UserCache, nextId |-> o.nextId]))

CertLogin(b) ==
  SSORequest(HonestQuery(AuthnRequestXML("_abc", SP1, "", b, 0), <<>>), NoKey, Alice, "")

FormLogin ==
  SSORequest(HonestQuery(AuthnRequestXML("_abc", SP1, "", BindingPOST, 0), <<>>), NoKey, "", "")

(* Nothing yet; a certificate login; then a redirect to the login form;    *)
(* a certificate login answered with an artifact.                          *)
PreStates ==
  {Constructed,
   After(Constructed, CertLogin(BindingPOST)),
   After(After(Constructed, CertLogin(BindingPOST)), FormLogin),
   After(Constructed, CertLogin(BindingArtifact))}

OtherXml == AuthnRequestXML("_zzz", SP1, "", BindingPOST, 0)

WideXmls ==
  {AuthnRequestXML("_abc", issuer, "", b, 0) : issuer \in {"", Evil, SP1, SP2}, b \in Bindings}
  \cup {AuthnRequestXML("_abc", issuer, EvilLoc, BindingPOST, 0) : issuer \in {Evil, SP1, SP2}}
  \cup {[NoXML EXCEPT !.wf = "syntax"]}

(* Signatures over the request sent, by either key; a signature over       *)
(* another request; a value that is not base64.                            *)
WideSignatures(xml, rs) ==
  {<<SigTok(Sign(Key1, "sha256", SignedOctets(<<ReqTok(xml)>>, rs, <<AlgTok(RsaSha256)>>)))>>,
   <<SigTok(Sign(Key2, "sha1", SignedOctets(<<ReqTok(xml)>>, rs, <<AlgTok(DsaSha1)>>)))>>,
   <<SigTok(Sign(Key1, "sha256", SignedOctets(<<ReqTok(OtherXml)>>, rs, <<AlgTok(RsaSha256)>>)))>>,
   <<Tok("!", 1)>>}

WideQueries ==
  UNION {{QueryOf(ParamsOf(<<ReqTok(xml)>>, rs, <<AlgTok(alg)>>, signature)) :
            alg \in {RsaSha256, DsaSha1, RsaMd5}, signature \in WideSignatures(xml, rs)} :
         xml \in WideXmls, rs \in {<<>>, <<Relay80>>, <<Relay81>>}}
  \cup {KSAMLRequest \o <<Eq, Tok("!", 1)>>,
        KSAMLRequest \o <<Eq, Esc(Tok(BadEscape, 3))>>}

(* Correctly signed queries of the registered providers. *)
ValidQueries ==
  {HonestQuery(AuthnRequestXML("_abc", issuer, "", b, 0), rs) :
     issuer \in {SP1, SP2}, b \in Bindings, rs \in {<<>>, <<Relay80>>}}

(* A cookie that was never issued, the first session, the last one. *)
Cookies == {NoKey, UUID(1), UUID(MaxIds)}

(* Every query with collaborators that work, and the valid ones with each  *)
(* collaborator failing.                                                   *)
WideRequests ==
  {SSORequest(q, cookie, cert, "") :
     q \in WideQueries \cup ValidQueries, cookie \in Cookies, cert \in {"", Alice}}
  \cup
  {SSORequest(q, cookie, cert, fault) :
     q \in ValidQueries, cookie \in Cookies, cert \in {"", Alice}, fault \in Faults}

InitSSO ==
  /\ sps = Registry
  /\ \E pre \in PreStates :
       TempCache = pre.TempCache /\ UserCache = pre.UserCache /\ nextId = pre.nextId
  /\ r \in WideRequests
  /\ w = NoResponse /\ calls = <<>>
  /\ args = <<>> /\ ret = NoRet

ServeSSO ==
  /\ w = NoResponse
  /\ SSOStep(r)

NextSSO == ServeSSO

SpecSSO == InitSSO /\ [][NextSSO]_vars

(***************************************************************************)
(* SpecACS: validateAuthRequest applied to every registry entry with up to *)
(* MaxACS assertion consumer services and every request.                   *)
(***************************************************************************)
(* Requests of the registered provider, signed; one unsigned; one without *)
(* an issuer and one of an unregistered issuer.                           *)
ACSRequests ==
  {[xml |-> AuthnRequestXML("_abc", SP1, url, BindingPOST, index), signed |-> TRUE] :
     index \in 0..MaxIndex, url \in {"", Loc1, Loc2, EvilLoc}}
  \cup {[xml |-> AuthnRequestXML("_abc", SP1, "", BindingPOST, 0), signed |-> FALSE],
        [xml |-> AuthnRequestXML("_abc", "", "", BindingPOST, 0), signed |-> TRUE],
        [xml |-> AuthnRequestXML("_abc", Evil, "", BindingPOST, 0), signed |-> TRUE]}

InitACS ==
  /\ \E list \in SeqsUpTo(ACSEntries, MaxACS) :
       sps = (SP1 :> MakeSP(SP1, list, <<>>, Key1))
  /\ \E rq \in ACSRequests :
       args = [request |-> rq.xml,
               rawQuery |-> IF rq.signed
                            THEN SignedQuery(<<ReqTok(rq.xml)>>, <<>>, RsaSha256, Key1)
                            ELSE KSAMLRequest \o <<Eq, ReqTok(rq.xml)>>]
  /\ ret = NoRet
  /\ TempCache = EmptyCache /\ UserCache = EmptyCache /\ nextId = 1
  /\ r = NoRequest /\ w = NoResponse /\ calls = <<>>

ValidateStep ==
  /\ ~ret.done
  /\ LET v == validateAuthRequest(sps, args.request, args.rawQuery, ParseForm(args.rawQuery))
     IN  ret' = [done |-> TRUE, err |-> v.err, request |-> v.request, acs |-> v.acs]
  /\ UNCHANGED <<sps, TempCache, UserCache, nextId, r, w, calls, args>>

NextACS == ValidateStep

SpecACS == InitACS /\ [][NextACS]_vars

(***************************************************************************)
(* SpecSig: verifySignature applied, as validateAuthRequest applies it, to *)
(* redirect queries whose parameters come in every order, signed or not,   *)
(* for a service provider with an RSA key and one with a DSA key.          *)
(***************************************************************************)
XmlA == AuthnRequestXML("_abc", SP1, "", BindingPOST, 0)

XmlB == AuthnRequestXML("_abd", SP1, "", BindingArtifact, 0)

SupportedAlgs == {DsaSha256, DsaSha1, RsaSha1, RsaSha256}

SigSamlReqs == {<<ReqTok(XmlA)>>, <<ReqTok(XmlB)>>}

(* No RelayState, an empty one, a percent-encoded one. *)
SigRelays == {<<>>, << <<>> >>, << <<Esc(Tok("state/1", 7))>> >>}

SigAlgVals == {<<AlgTok(u)>> : u \in SupportedAlgs \cup {RsaMd5}} \cup {<<>>}

(* Signature values that are not what a key holder produces: not base64,   *)
(* empty, DER with trailing octets, DER with a non-positive integer.       *)
JunkSignatures ==
  {<<Tok("!", 1)>>, <<>>,
   <<SigTok([NoSig EXCEPT !.asn1 = "rest", !.R = 1, !.S = 1])>>,
   <<SigTok([NoSig EXCEPT !.asn1 = "ok", !.R = 0, !.S = 1])>>,
   <<SigTok([NoSig EXCEPT !.asn1 = "ok", !.R = 1, !.S = 1])>>}

(* What the holder of key signs when it sends samlReq with sigAlg. *)
SignaturesOver(rs) ==
  {<<SigTok(Sign(key, HashOf(alg[1].c), SignedOctets(q, rs, alg)))>> :
     key \in {Key1, Key2}, q \in SigSamlReqs, alg \in {<<AlgTok(u)>> : u \in SupportedAlgs}}

(* Signatures of a DSA key holder over sha1, as they read with an octet    *)
(* appended to the DER, or with S or R replaced by a non-positive integer. *)
MangledSignatures(rs) ==
  UNION {{<<SigTok([s[1].sig EXCEPT !.asn1 = "rest"])>>,
          <<SigTok([s[1].sig EXCEPT !.S = 0])>>,
          <<SigTok([s[1].sig EXCEPT !.R = -1])>>} :
           s \in {t \in SignaturesOver(rs) : t[1].sig.alg = "dsa" /\ t[1].sig.hash = "sha1"}}

GenuineSignatures == UNION {SignaturesOver(rs) : rs \in SigRelays}

Permute(ps, p) == [i \in 1..Len(ps) |-> ps[p[i]]]

InitSig ==
  /\ \E q \in SigSamlReqs \cup {<<ReqTok(XmlA), Eq>>}, rs \in SigRelays, alg \in SigAlgVals,
        key \in {Key1, Key2} :
     \E signature \in SignaturesOver(rs) \cup JunkSignatures \cup MangledSignatures(rs) :
       LET ps == ParamsOf(q, rs, alg, signature)
       IN  \E p \in Perms(Len(ps)) :
             args = [samlReq |-> q, relay |-> rs, sigAlg |-> alg, signature |-> signature,
                     rawQuery |-> QueryOf(Permute(ps, p)),
                     sp |-> MakeSP(IF key = Key1 THEN SP1 ELSE SP2, <<>>, <<>>, key)]
  /\ ret = NoRet
  /\ sps = (SP1 :> MakeSP(SP1, <<>>, <<>>, Key1))
  /\ TempCache = EmptyCache /\ UserCache = EmptyCache /\ nextId = 1
  /\ r = NoRequest /\ w = NoResponse /\ calls = <<>>

VerifyStep ==
  /\ ~ret.done
  /\ LET form == ParseForm(args.rawQuery)
         vs   == verifySignature(args.rawQuery, FormGet(form, KSigAlg),
                                 FormGet(form, KSignature), args.sp)
     IN  ret' = [done |-> TRUE, err |-> vs.err, hashed |-> vs.hashed, octets |-> vs.octets,
                 h |-> vs.h, v |-> vs.v, alg |-> FormGet(form, KSigAlg)]
  /\ UNCHANGED <<sps, TempCache, UserCache, nextId, r, w, calls, args>>

NextSig == VerifyStep

SpecSig == InitSig /\ [][NextSig]_vars

(***************************************************************************)
(* Assertion consumer service selection (SpecACS).                         *)
(***************************************************************************)
(* The request reached the selection loop: its issuer is registered. *)
Selecting == ret.done /\ args.request.Issuer \in DOMAIN sps

ACSList == sps[args.request.Issuer].AssertionConsumerServices

IndexMatches == {i \in 1..Len(ACSList) :
                   ACSList[i].Index = args.request.AssertionConsumerServiceIndex}

URLMatches == {i \in 1..Len(ACSList) :
                 ACSList[i].Location = args.request.AssertionConsumerServiceURL}

Defaults == {i \in 1..Len(ACSList) : ACSList[i].IsDefault}

First(S) == CHOOSE i \in S : \A j \in S : i <= j

(* C1: whenever some ACS entry of the issuer has the Index the request     *)
(* names, the selected ACS is an entry with that Index, whatever entries   *)
(* matching by URL or marked default precede it.                           *)
C1_IndexFirst ==
  (Selecting /\ IndexMatches # {}) =>
     /\ ret.acs # 0
     /\ ACSList[ret.acs].Index = args.request.AssertionConsumerServiceIndex

(* C2: when no ACS entry matches by Index and some entry has the Location  *)
(* the request names, the selected ACS is an entry with that Location,     *)
(* wherever the default entries are.                                       *)
C2_URLBeforeDefault ==
  (Selecting /\ IndexMatches = {} /\ URLMatches # {}) =>
     /\ ret.acs # 0
     /\ ACSList[ret.acs].Location = args.request.AssertionConsumerServiceURL

(* A default entry precedes the URL match that was selected. *)
C2_Witness ==
  /\ Selecting /\ IndexMatches = {} /\ URLMatches # {}
  /\ \E d \in Defaults : d < ret.acs
  /\ ret.err = ""

(* C3: when no ACS entry matches by Index or by URL, the selected ACS is   *)
(* the first default entry in metadata order; with no default entry (or no *)
(* entry at all) validation fails with the NoACS error.                    *)
C3_FirstDefault ==
  (Selecting /\ IndexMatches = {} /\ URLMatches = {}) =>
     IF Defaults = {}
     THEN ret.err = ErrNoACS
     ELSE ret.acs # 0 /\ ACSList[ret.acs] = ACSList[First(Defaults)]

(* C4: a request naming a Location other than the selected one is          *)
(* rejected, and every request that passes validation carries, as its      *)
(* AssertionConsumerServiceURL, the Location of a registered ACS entry of  *)
(* its issuer.                                                             *)
C4_ACSMismatch ==
  /\ (/\ Selecting /\ ret.acs # 0
      /\ args.request.AssertionConsumerServiceURL # ""
      /\ args.request.AssertionConsumerServiceURL # ACSList[ret.acs].Location)
       => ret.err = ErrACSMismatch
  /\ (ret.done /\ ret.err = "") =>
       /\ args.request.Issuer \in DOMAIN sps
       /\ \E i \in 1..Len(ACSList) :
            ACSList[i].Location = ret.request.AssertionConsumerServiceURL

(* A request that left the URL out passed, and now carries a registered one. *)
C4_Witness ==
  /\ ret.done /\ ret.err = ""
  /\ args.request.AssertionConsumerServiceURL = ""
  /\ ret.request.AssertionConsumerServiceURL = Loc2

(* A request naming an unregistered Location was turned down for it. *)
C4_WitnessRejected ==
  /\ ret.done /\ ret.err = ErrACSMismatch
  /\ args.request.AssertionConsumerServiceURL = EvilLoc

(***************************************************************************)
(* Redirect signature verification (SpecSig).                              *)
(***************************************************************************)
(* Every parameter of the query splits into one key and one value. *)
WellFormedQuery ==
  \A i \in 1..Len(Split(args.rawQuery, "&")) :
     Len(Split(Split(args.rawQuery, "&")[i], "=")) = 2

(* C6: whatever the order of SAMLRequest, RelayState, SigAlg and Signature *)
(* in the raw query, the octets that are hashed are exactly                *)
(* SAMLRequest=<v>[&RelayState=<v>]&SigAlg=<v> with the raw values of the  *)
(* query, RelayState being there exactly when the query has one; and they  *)
(* are hashed whenever the query is well formed, the signature is base64   *)
(* and the algorithm is a supported one.                                   *)
C6_CanonicalOctets ==
  ret.done =>
    /\ ret.hashed => ret.octets = SignedOctets(args.samlReq, args.relay, args.sigAlg)
    /\ ret.hashed <=> /\ WellFormedQuery
                      /\ B64Ok(QueryUnescape(args.signature))
                      /\ AlgName(args.sigAlg) \in SupportedAlgs

(* A signed query with a RelayState, sent with Signature first and         *)
(* SAMLRequest last, verified.                                             *)
C6_Witness ==
  /\ ret.done /\ ret.hashed /\ ret.err = ""
  /\ args.relay # <<>> /\ args.relay[1] # <<>>
  /\ SubSeq(args.rawQuery, 1, 1) = KSignature
  /\ args.rawQuery[Len(args.rawQuery)] = args.samlReq[1]

(* The signature is what the provider's own key makes over the query it    *)
(* sent with req0 and alg0, and the query now carries another SAMLRequest  *)
(* or another SigAlg.                                                      *)
Tampered ==
  /\ ret.done
  /\ \E req0 \in SigSamlReqs, alg0 \in {<<AlgTok(u)>> : u \in SupportedAlgs} :
       /\ args.signature =
            <<SigTok(Sign(args.sp.publicKey, HashOf(alg0[1].c),
                          SignedOctets(req0, args.relay, alg0)))>>
       /\ (alg0[1].c \in {RsaSha1, RsaSha256}) <=> (args.sp.publicKey.type = "rsa")
       /\ req0 # args.samlReq \/ alg0 # args.sigAlg

SignatureErrors ==
  {ErrTrouble, ErrBase64, ErrUnsupportedAlg, ErrRSA, ErrASN1, ErrTrailing, ErrZeroNeg, ErrDSA}

(* C7: a validly signed query whose SAMLRequest was changed or whose       *)
(* SigAlg was switched makes verifySignature return an error; it is never  *)
(* accepted and verification never ends abnormally.                        *)
C7_TamperRejected == Tampered => ret.err \in SignatureErrors

(* C8 as stated: every SigAlg outside the table fails with the             *)
(* unsupported-algorithm error, whatever the rest of the query is.         *)
C8_UnsupportedAlways ==
  (ret.done /\ AlgName(ret.alg) \notin SupportedAlgs) => ret.err = ErrUnsupportedAlg

(* C8 amended: the four URIs of the table hash and verify as the table     *)
(* says; every other SigAlg fails without hashing anything, and fails with *)
(* the unsupported-algorithm error when the query is well formed and the   *)
(* Signature value is base64.                                              *)
C8_SupportedAlgorithms ==
  ret.done =>
    /\ (ret.hashed /\ AlgName(ret.alg) \in {RsaSha1, DsaSha1}) => ret.h = "sha1"
    /\ (ret.hashed /\ AlgName(ret.alg) \in {RsaSha256, DsaSha256}) => ret.h = "sha256"
    /\ (ret.hashed /\ AlgName(ret.alg) \in {RsaSha1, RsaSha256}) => ret.v = "rsa"
    /\ (ret.hashed /\ AlgName(ret.alg) \in {DsaSha1, DsaSha256}) => ret.v = "dsa"
    /\ AlgName(ret.alg) \notin SupportedAlgs =>
         /\ ~ret.hashed
         /\ ret.err \in {ErrTrouble, ErrBase64, ErrUnsupportedAlg}
         /\ (WellFormedQuery /\ B64Ok(QueryUnescape(args.signature)))
               => ret.err = ErrUnsupportedAlg

(* An rsa-md5 query carrying a genuine signature was turned down as unsupported. *)
C8_Witness ==
  /\ ret.done /\ AlgName(ret.alg) = RsaMd5
  /\ args.signature \in GenuineSignatures
  /\ ret.err = ErrUnsupportedAlg

(***************************************************************************)
(* The SSO handler, one request at a time (SpecSSO).                       *)
(***************************************************************************)
FormOf(rq) == ParseForm(rq.RawQuery)

RelayOf(rq) == FormGet(FormOf(rq), KRelayState)

DecodedOf(rq) == XmlOf(FormGet(FormOf(rq), KSAMLRequest))

(* The request parses, its RelayState is short enough and its SAMLRequest  *)
(* decodes: the handler calls validateAuthRequest.                         *)
ReachesValidation(rq) ==
  /\ ~FormOf(rq).err
  /\ len(RelayOf(rq)) <= MaxRelayState
  /\ B64Ok(FormGet(FormOf(rq), KSAMLRequest))
  /\ DecodedOf(rq).wf = "ok"

ValidationOf(rq) == validateAuthRequest(sps, DecodedOf(rq), rq.RawQuery, FormOf(rq))

(* The step serves the request r'. *)
Serving == w.status = -1 /\ r'.kind = "sso" /\ w'.status # -1

Called(log, ops) == \E i \in 1..Len(log) : log[i].op \in ops

RespondedWith(log, user) == \E i \in 1..Len(log) : log[i] = CallWith("respond", user)

(* C5: a request whose issuer is empty or not registered is answered 400   *)
(* (with 'request from an unregistered issuer' for an unknown issuer), and *)
(* whenever validateAuthRequest fails both caches stay as they were, no    *)
(* cookie is set and neither the validator nor the auditor is called.      *)
C5_RejectedRequestNoEffect ==
  [][(Serving /\ ReachesValidation(r') /\ ValidationOf(r').err # "") =>
       /\ UNCHANGED <<TempCache, UserCache>>
       /\ w'.cookie = NoKey
       /\ ~Called(calls', {"Validate", "LogSuccess", "respond"})
       /\ DecodedOf(r').Issuer = "" => (w'.status = 400 /\ w'.body = ErrNoIssuer)
       /\ (DecodedOf(r').Issuer # "" /\ DecodedOf(r').Issuer \notin DOMAIN sps)
            => (w'.status = 400 /\ w'.body = ErrUnregistered)]_vars

(* An unregistered issuer was turned down although the request came with a *)
(* live session cookie and a client certificate.                           *)
C5_Witness ==
  /\ r.kind = "sso" /\ w.status = 400 /\ w.body = ErrUnregistered
  /\ r.Cookie \in DOMAIN UserCache /\ r.Cert # ""
  /\ DecodedOf(r).Issuer = Evil

(* C9: a request whose RelayState is longer than 80 is answered 400 before *)
(* SAMLRequest is decoded, with both caches unchanged and no cookie; a     *)
(* RelayState of exactly 80 is not turned down for its length.             *)
C9_RelayStateLimit ==
  [][Serving =>
       /\ len(RelayOf(r')) > 80 =>
            /\ w'.status = 400
            /\ ~FormOf(r').err => w'.body = ErrRelayState
            /\ ~Called(calls', {"DecodeString"})
            /\ UNCHANGED <<TempCache, UserCache>>
            /\ w'.cookie = NoKey
       /\ len(RelayOf(r')) = 80 => w'.body # ErrRelayState]_vars

(* A RelayState of 81 was turned down although the request was otherwise   *)
(* valid and came with a live session cookie.                              *)
C9_Witness ==
  /\ r.kind = "sso" /\ len(RelayOf(r)) = 81
  /\ w.status = 400 /\ w.body = ErrRelayState
  /\ r.Cookie \in DOMAIN UserCache
  /\ DecodedOf(r).Issuer = SP1

(* A RelayState of 80 went through to the response form. *)
C9_WitnessAccepted ==
  /\ r.kind = "sso" /\ len(RelayOf(r)) = 80
  /\ w.status = 200 /\ w.location.relay = Relay80

(* The three ways a validated request is answered. *)
CertUser(rq) ==
  setUserAttributes(rq.Sources,
                    [Name |-> rq.Cert, Format |-> FormatX509, Context |-> ContextX509,
                     Attributes |-> <<>>],
                    "").user

BySession ==
  /\ RespondedWith(calls', UserCache[r'.Cookie])
  /\ ~Called(calls', {"getCertFromRequest", "setUserAttributes", "Validate", "LogSuccess"})
  /\ w'.status # 307

ByCertificate ==
  /\ RespondedWith(calls', CertUser(r'))
  /\ w'.status # 307

ByLoginForm ==
  /\ TempCache' = CacheSet(TempCache, UUID(nextId),
                    [request |-> NewAuthnRequest(ValidationOf(r').request, RelayOf(r')),
                     user |-> NoUser])
  /\ w'.status = 307
  /\ w'.location = [to |-> LoginPage, key |-> UUID(nextId), relay |-> <<>>]
  /\ UNCHANGED UserCache
  /\ w'.cookie = NoKey
  /\ ~Called(calls', {"respond"})

(* The request is answered 400 and leaves nothing behind. *)
Refused ==
  /\ w'.status = 400
  /\ UNCHANGED <<TempCache, UserCache>>
  /\ w'.cookie = NoKey
  /\ ~Called(calls', {"respond"})

(* C10 as stated: after a successful validateAuthRequest the handler       *)
(* answers from the session if the cookie resolves to a live user, else    *)
(* from the client certificate if there is one, else stores the request    *)
(* and redirects to the login form.                                        *)
C10_Dispatch ==
  [][(Serving /\ ReachesValidation(r') /\ ValidationOf(r').err = "") =>
       IF r'.Cookie \in DOMAIN UserCache THEN BySession
       ELSE IF r'.Cert # "" THEN ByCertificate
       ELSE ByLoginForm]_vars

(* C10 amended: the same three branches in the same priority, except that  *)
(* the certificate branch answers 400 without calling respond when an      *)
(* attribute source fails, and the login-form branch answers 400 without   *)
(* a redirect when TempCache.Set fails.                                    *)
C10_DispatchUnlessCollaboratorFails ==
  [][(Serving /\ ReachesValidation(r') /\ ValidationOf(r').err = "") =>
       IF r'.Cookie \in DOMAIN UserCache THEN BySession
       ELSE IF r'.Cert # ""
       THEN IF r'.Fault = "AddAttributes" THEN Refused ELSE ByCertificate
       ELSE IF r'.Fault = "TempCache.Set" THEN Refused ELSE ByLoginForm]_vars

(* A request with a live session cookie and a client certificate was       *)
(* answered from the session, the certificate not looked at.               *)
C10_Witness ==
  /\ r.kind = "sso" /\ w.status = 200 /\ r.Cert # ""
  /\ r.Cookie \in DOMAIN UserCache
  /\ RespondedWith(calls, UserCache[r.Cookie])
  /\ ~Called(calls, {"getCertFromRequest"})

(***************************************************************************)
(* Claims about the handlers of Spec.                                      *)
(***************************************************************************)
(* A step in which a handler served a request: the steps of the TTL leave  *)
(* r, w, calls and nextId alone.                                           *)
Handled == <<r, w, calls, nextId>>' # <<r, w, calls, nextId>>

(* The request just served was a login form whose cached request was used  *)
(* to authenticate the user and call respond.                              *)
BlobUsed == r.kind = "password" /\ Called(calls, {"respond"})

(* C11: once a password-login POST has used the TempCache entry of a       *)
(* requestId to authenticate a user and call respond, a password-login     *)
(* POST with the same requestId that follows before the entry expires does *)
(* not find the blob and does not call respond.                            *)
C11_RequestBlobConsumedOnce ==
  [][(BlobUsed /\ Handled /\ r'.kind = "password" /\ r'.RequestId = r.RequestId)
       => (~CacheHas(TempCache, r.RequestId) /\ ~Called(calls', {"respond"}))]_vars

(* The request just served was an artifact resolution that returned the    *)
(* assertion.                                                              *)
Resolved == r.kind = "resolve" /\ w.status = 200

(* C12: once an ArtifactResolve request has resolved an artifact, an       *)
(* ArtifactResolve for the same artifact served before the entry expires   *)
(* fails and returns no assertion.                                         *)
C12_ArtifactBlobConsumedOnce ==
  Resolved =>
    \A rq \in ResolveRequests :
      rq.Artifact = r.Artifact =>
        LET o == DefaultArtifactResolveHandler(StateOf, rq)
        IN  o.w.status # 200 /\ ~Called(o.calls, {"makeAuthnResponse"})

(* The step serves a login form that parses, names a cached request and    *)
(* carries credentials the validator rejects.                             *)
WrongPasswordServed ==
  /\ Handled
  /\ r'.kind = "password" /\ ~r'.FormErr
  /\ CacheHas(TempCache, r'.RequestId)
  /\ Validate(r'.Ldap, r'.Username, r'.Password).err # ""

CookieSet == Handled /\ w'.cookie.t = "uuid"

(* The step served a request that reached respond. *)
RespondCalled == Handled /\ Called(calls', {"respond"})

(* C14: a response carries a session cookie only when respond has stored   *)
(* a user under that UUID in the user cache, in the same request and       *)
(* before the response left; when UserCache.Set fails the error is         *)
(* reported, no cookie is set and the user cache is as it was.             *)
C14_CookieAfterSet ==
  [][/\ CookieSet =>
          /\ RespondCalled
          /\ r'.Fault # "UserCache.Set"
          /\ ~CacheHas(UserCache, w'.cookie)
          /\ CacheHas(UserCache', w'.cookie)
          /\ RespondedWith(calls', UserCache'[w'.cookie])
     /\ (RespondCalled /\ r'.Fault = "UserCache.Set") =>
          /\ w'.cookie = NoKey
          /\ w'.status \in {400, 302}
          /\ (w'.status = 302 => w'.location.to = LoginPage)
          /\ UserCache' = UserCache]_vars

(* A response has just set a session cookie for a user stored a moment     *)
(* before, next to an older session.                                       *)
C14_Witness ==
  /\ w.status # -1 /\ w.cookie.t = "uuid"
  /\ CacheHas(UserCache, w.cookie)
  /\ Cardinality(DOMAIN UserCache) >= 2

(* respond was reached while UserCache.Set failed. *)
C14_WitnessSetFailed ==
  /\ r.kind \in {"sso", "password"} /\ r.Fault = "UserCache.Set"
  /\ Called(calls, {"respond"})

(* The step is a logout request presented with the cookie k. *)
LogoutOf(k) == Handled /\ r'.kind = "slo" /\ r'.Cookie = k

(* The step serves a validated SSO request that presents the cookie of a   *)
(* live session.                                                           *)
SessionPresented ==
  /\ Handled /\ r'.kind = "sso"
  /\ CacheHas(UserCache, r'.Cookie)
  /\ Called(calls', {"getUserFromSession"})

(* C15: a session stored by respond keeps its user: in every step each     *)
(* user-cache entry stays as it is unless its TTL elapses or a logout      *)
(* request presents its key, and every SSO request that presents the key   *)
(* of a live session is answered for the user stored under it.             *)
C15_SessionLinearizable ==
  [][/\ \A k \in DOMAIN UserCache :
          \/ CacheHas(UserCache', k) /\ UserCache'[k] = UserCache[k]
          \/ ~Handled
          \/ LogoutOf(k)
     /\ SessionPresented => RespondedWith(calls', UserCache[r'.Cookie])]_vars

(* An SSO request presenting the first session's cookie has just been      *)
(* answered for that session's user, after a later login.                  *)
C15_Witness ==
  /\ r.kind = "sso" /\ r.Cert = ""
  /\ CacheHas(UserCache, r.Cookie)
  /\ RespondedWith(calls, UserCache[r.Cookie])
  /\ Cardinality(DOMAIN UserCache) >= 3

(* The keys the step adds to the user cache. *)
Created == (DOMAIN UserCache') \ (DOMAIN UserCache)

(* Every entry the step removes goes by its TTL or by a logout request     *)
(* that presents its key.                                                  *)
RemovedBySLOOrTTL ==
  \A k \in (DOMAIN UserCache) \ (DOMAIN UserCache') : ~Handled \/ LogoutOf(k)

(* C16: a user-cache entry is created only by a request in which a         *)
(* certificate or password login succeeded, and removed only by a logout   *)
(* request or its TTL; an SSO request served from an existing session      *)
(* creates no entry.                                                       *)
C16_CreatedOnlyByLogin ==
  [][/\ Created # {} => (Handled /\ Called(calls', {"LogSuccess"}))
     /\ RemovedBySLOOrTTL
     /\ SessionPresented => Created = {}]_vars

(* C16, amended: a user-cache entry is created only by respond, one per    *)
(* call, under the UUID of the cookie it sets and for the user it was      *)
(* called with: after a certificate or password login that succeeded, or   *)
(* for an SSO request served from an existing session, whose user is       *)
(* stored again under a new UUID; entries are removed only by a logout     *)
(* request presenting their key or by their TTL.                           *)
C16_CreatedOnlyByRespond ==
  [][/\ Created # {} =>
          /\ Handled /\ r'.kind \in {"sso", "password"}
          /\ Created = {w'.cookie}
          /\ RespondedWith(calls', UserCache'[w'.cookie])
          /\ \/ calls'[Len(calls') - 1] \in
                  {LogSuccess(UserCache'[w'.cookie], t) :
                     t \in {CertificateLogin, PasswordLoginType}}
             \/ SessionPresented /\ UserCache'[w'.cookie] = UserCache[r'.Cookie]
     /\ RemovedBySLOOrTTL
     /\ (SessionPresented /\ r'.Fault # "UserCache.Set") => Cardinality(Created) = 1]_vars

(* An SSO request served from a session has just stored that session's     *)
(* user a second time, under the UUID of the new cookie.                   *)
C16_Witness ==
  /\ r.kind = "sso" /\ ~Called(calls, {"LogSuccess"})
  /\ w.status # -1 /\ w.cookie.t = "uuid" /\ w.cookie # r.Cookie
  /\ CacheHas(UserCache, w.cookie) /\ CacheHas(UserCache, r.Cookie)
  /\ UserCache[w.cookie] = UserCache[r.Cookie]

(***************************************************************************)
(* SpecSLO: one logout request served, for every registry entry with up to *)
(* MaxSLO logout services and every request of a wide set, with and        *)
(* without sessions.                                                       *)
(***************************************************************************)
SLOEntries ==
  [Index : {0}, IsDefault : {FALSE},
   Binding : {BindingPOST, BindingRedirect, BindingArtifact}, Location : {SloLoc, Loc1}]

SLORegistries ==
  {[Registry EXCEPT ![SP1].SingleLogoutServices = slo] : slo \in SeqsUpTo(SLOEntries, MaxSLO)}

(* Nothing yet; one session and an artifact; two sessions and an artifact. *)
SLOPreStates ==
  {Constructed,
   After(Constructed, CertLogin(BindingArtifact)),
   After(After(Constructed, CertLogin(BindingPOST)), CertLogin(BindingArtifact))}

WideLogoutXmls ==
  {LogoutRequestXML(issuer, url, b) :
     issuer \in {"", Evil, SP1, SP2}, url \in {"", SloLoc, EvilLoc},
     b \in {BindingPOST, BindingRedirect, BindingArtifact, ""}}

(* An RSA key that is in no provider's metadata. *)
ForgerKey == [type |-> "rsa", id |-> "forger-key"]

(* What a sender can put after the SAMLRequest parameter samlReq: nothing; *)
(* SigAlg and the signature of the provider's key; the signature of        *)
(* another key; a Signature that is not base64; an algorithm the provider  *)
(* does not support; a Signature alone; a Signature that cannot be         *)
(* unescaped.                                                              *)
SignatureSuffixes(samlReq) ==
  LET alg      == <<AlgTok(RsaSha256)>>
      SigOf(k) == <<SigTok(Sign(k, HashOf(RsaSha256), SignedOctets(samlReq, <<>>, alg)))>>
      With2(a, sg) == <<Amp>> \o QueryOf(<<[k |-> KSigAlg, v |-> a], [k |-> KSignature, v |-> sg]>>)
  IN  {<<>>,
       With2(alg, SigOf(Key1)),
       With2(alg, SigOf(ForgerKey)),
       With2(alg, <<Tok("!", 1)>>),
       With2(<<AlgTok(RsaMd5)>>, SigOf(Key1)),
       <<Amp>> \o QueryOf(<<[k |-> KSignature, v |-> SigOf(ForgerKey)]>>),
       With2(alg, <<Tok(BadEscape, 3)>>)}

(* The logout requests that are also sent signed: one the handler serves   *)
(* with a form, one it serves with a redirect, one of an unregistered      *)
(* issuer.                                                                 *)
SignedLogoutXmls ==
  {LogoutRequestXML(SP1, "", BindingPOST), LogoutRequestXML(SP1, SloLoc, BindingRedirect),
   LogoutRequestXML(Evil, "", BindingPOST)}

(* Logout requests, an AuthnRequest sent to the logout endpoint, a value   *)
(* that is not base64, and some of the logout requests with each           *)
(* signature suffix.                                                       *)
WideSLORequests ==
  {SLORequest(q, cookie) :
     q \in {LogoutQuery(xml) : xml \in WideLogoutXmls}
           \cup {LogoutQuery(OtherXml), KSAMLRequest \o <<Eq, Tok("!", 1)>>}
           \cup UNION {{LogoutQuery(xml) \o s : s \in SignatureSuffixes(<<ReqTok(xml)>>)} :
                          xml \in SignedLogoutXmls},
     cookie \in Cookies}

InitSLO ==
  /\ sps \in SLORegistries
  /\ \E pre \in SLOPreStates :
       TempCache = pre.TempCache /\ UserCache = pre.UserCache /\ nextId = pre.nextId
  /\ r \in WideSLORequests
  /\ w = NoResponse /\ calls = <<>>
  /\ args = <<>> /\ ret = NoRet

ServeSLO ==
  /\ w = NoResponse
  /\ \E o \in {DefaultRedirectSLOHandler(sps, StateOf, r)} : Serve(o, r)

NextSLO == ServeSLO

SpecSLO == InitSLO /\ [][NextSLO]_vars

(***************************************************************************)
(* Claims about the SLO handler, under SpecSLO.                            *)
(***************************************************************************)
(* The step in which the logout request r is served. *)
ServingSLO == w = NoResponse /\ w' # NoResponse

(* The LogoutRequest the query of r decodes to, if it decodes. *)
LogoutOfRequest == XmlOf(FormGet(ParseForm(r.RawQuery), KSAMLRequest))

(* The query parses and its SAMLRequest decodes to a LogoutRequest. *)
Decodes == ~ParseForm(r.RawQuery).err /\ LogoutOfRequest.wf = "logout"

(* The first logout service of the issuer's registry entry. *)
HasSLO ==
  /\ LogoutOfRequest.Issuer \in DOMAIN sps
  /\ Len(sps[LogoutOfRequest.Issuer].SingleLogoutServices) > 0

FirstSLO == sps[LogoutOfRequest.Issuer].SingleLogoutServices[1]

(* The request is one validateLogoutRequest has to accept. *)
ValidLogout ==
  /\ Decodes /\ LogoutOfRequest.Issuer # "" /\ HasSLO
  /\ LogoutOfRequest.SingleLogoutServiceUrl \in {"", FirstSLO.Location}

(* The session of the presented cookie is gone, nothing else has changed   *)
(* and the response clears the cookie.                                     *)
SessionEnded ==
  /\ ~CacheHas(UserCache', r.Cookie)
  /\ \A k \in (DOMAIN UserCache) \ {r.Cookie} :
       CacheHas(UserCache', k) /\ UserCache'[k] = UserCache[k]
  /\ DOMAIN UserCache' \subseteq DOMAIN UserCache
  /\ TempCache' = TempCache
  /\ w'.cookie = [t |-> "cleared", n |-> -1]

(* The response for binding b: the logout form, or the redirect. *)
DeliveredBy(b) ==
  /\ b = BindingPOST =>
       /\ w'.status = 200 /\ w'.body = "logoutResponse form"
       /\ w'.location.to = FirstSLO.Location
  /\ b = BindingRedirect =>
       /\ w'.status = 302 /\ w'.location.to = FirstSLO.Location

(* C17: a valid LogoutRequest presented with the cookie of a live session  *)
(* removes that session only, leaves TempCache alone and clears the        *)
(* cookie; the request's binding HTTP-POST yields the logout form,         *)
(* HTTP-Redirect a 302 to SingleLogoutServiceUrl.                          *)
C17_SLOEffects ==
  [][(ServingSLO /\ ValidLogout /\ CacheHas(UserCache, r.Cookie))
       => (SessionEnded /\ DeliveredBy(LogoutOfRequest.ProtocolBinding))]_vars

(* The binding the handler dispatches on: the request's own when it names  *)
(* a logout URL, the first logout service's when it names none.            *)
EffectiveBinding ==
  IF LogoutOfRequest.SingleLogoutServiceUrl = ""
  THEN FirstSLO.Binding
  ELSE LogoutOfRequest.ProtocolBinding

(* C17, amended: as above, with the binding taken from the request when    *)
(* it names a SingleLogoutServiceUrl and from the provider's first logout  *)
(* service when it names none; any other binding is answered with HTTP 400 *)
(* after the session is removed and the cookie cleared.                    *)
C17_SLOEffectsByEffectiveBinding ==
  [][(ServingSLO /\ ValidLogout /\ CacheHas(UserCache, r.Cookie))
       => /\ SessionEnded
          /\ DeliveredBy(EffectiveBinding)
          /\ EffectiveBinding \notin {BindingPOST, BindingRedirect} =>
               w'.status = 400 /\ w'.body = "unsupported protocol binding"]_vars

(* A logout request sent with HTTP-POST and no URL to a provider whose     *)
(* first logout service is HTTP-Redirect has just ended one of two         *)
(* sessions with a redirect.                                               *)
C17_Witness ==
  /\ r.kind = "slo" /\ w # NoResponse /\ ValidLogout
  /\ LogoutOfRequest.ProtocolBinding = BindingPOST
  /\ LogoutOfRequest.SingleLogoutServiceUrl = ""
  /\ FirstSLO.Binding = BindingRedirect
  /\ w.status = 302 /\ w.cookie = ClearedCookie
  /\ r.Cookie = UUID(1) /\ DOMAIN UserCache = {UUID(2)}

(* The message validateLogoutRequest has for a decoded request it rejects, *)
(* "" for one it has to accept.                                            *)
LogoutRejection ==
  IF LogoutOfRequest.Issuer = "" THEN "request does not contain an issuer"
  ELSE IF LogoutOfRequest.Issuer \notin DOMAIN sps THEN "request from an unregistered issuer"
  ELSE IF ~HasSLO THEN "sp slo api not found"
  ELSE IF LogoutOfRequest.SingleLogoutServiceUrl \notin {"", FirstSLO.Location}
  THEN "slo in request does not match metadata"
  ELSE ""

(* C18: a LogoutRequest without issuer, of an unregistered issuer, of a     *)
(* provider without logout service, or naming a URL other than the         *)
(* Location of the provider's first logout service is answered with HTTP   *)
(* 400, the caches stay as they are and the cookie is not cleared; every   *)
(* logout form or redirect goes to the Location of the provider's first    *)
(* logout service.                                                         *)
C18_SLOValidation ==
  [][(ServingSLO /\ Decodes) =>
       /\ LogoutRejection # "" =>
            /\ w'.status = 400 /\ w'.body = LogoutRejection
            /\ w'.cookie = NoKey
            /\ UserCache' = UserCache /\ TempCache' = TempCache
            /\ ~Called(calls', {"deleteUserFromSession"})
       /\ LogoutRejection = "" =>
            /\ Called(calls', {"deleteUserFromSession"})
            /\ w'.status \in {200, 302, 400}
            /\ w'.status \in {200, 302} => w'.location.to = FirstSLO.Location]_vars

(* A logout request naming a URL that is not the first logout service's    *)
(* has just been turned down while its session stays.                      *)
C18_Witness ==
  /\ r.kind = "slo" /\ Decodes /\ HasSLO
  /\ LogoutOfRequest.SingleLogoutServiceUrl = SloLoc
  /\ FirstSLO.Location = Loc1
  /\ Len(sps[SP1].SingleLogoutServices) = 2
  /\ w # NoResponse /\ w.status = 400 /\ w.cookie = NoKey
  /\ CacheHas(UserCache, r.Cookie)

(***************************************************************************)
(* Claims about respond, under Spec.                                       *)
(***************************************************************************)
(* The ProtocolBinding of the request the step hands to respond. *)
RespondBinding ==
  IF r'.kind = "password"
  THEN TempCache[r'.RequestId].request.ProtocolBinding
  ELSE DecodedOf(r').ProtocolBinding

(* The step reaches the binding switch of respond. *)
Dispatching == RespondCalled /\ r'.Fault # "UserCache.Set"

(* What sendArtifactResponse, sendPostResponse and sendECPResponse leave   *)
(* in the response.                                                        *)
Delivered ==
  /\ RespondBinding = BindingArtifact =>
       /\ w'.status = 302 /\ w'.location.key.t = "artifact"
       /\ (r'.Fault = "" => CacheHas(TempCache', w'.location.key))
  /\ RespondBinding = BindingPOST =>
       /\ w'.status = 200 /\ w'.body = "SAMLResponse form"
  /\ RespondBinding = BindingPAOS =>
       /\ w'.status = 200 /\ w'.body = "ECP envelope"

Supported == {BindingArtifact, BindingPOST, BindingPAOS}

(* C19: respond delivers HTTP-Artifact, HTTP-POST and PAOS by the three    *)
(* send functions and fails for every other binding, and on every path     *)
(* that failure reaches the browser as an HTTP 4xx/5xx error with the      *)
(* plain-text message.                                                     *)
C19_BindingDispatch ==
  [][Dispatching =>
       /\ Delivered
       /\ RespondBinding \notin Supported =>
            /\ w'.status \in 400..599
            /\ w'.body = "unsupported protocol binding"]_vars

(* C19, amended: as above, but the failure is an HTTP 400 with the         *)
(* plain-text message on the two SSO paths, and on the password-login path *)
(* a 302 to the login page with the requestId and the escaped message in   *)
(* the query; the session is stored and its cookie set in both cases.      *)
C19_BindingDispatchByPath ==
  [][Dispatching =>
       /\ Delivered
       /\ RespondBinding \notin Supported =>
            /\ r'.kind = "sso" =>
                 /\ w'.status = 400 /\ w'.body = "unsupported protocol binding"
            /\ r'.kind = "password" =>
                 /\ w'.status = 302 /\ w'.body = ""
                 /\ w'.location = [to |-> "/idp/static/login.html", key |-> r'.RequestId,
                                   relay |-> <<>>, error |-> "unsupported+protocol+binding"]
            /\ w'.cookie.t = "uuid" /\ CacheHas(UserCache', w'.cookie)]_vars

(* A password login for a cached request with binding HTTP-Redirect has    *)
(* just been sent back to the login page, with a session cookie.           *)
C19_Witness ==
  /\ r.kind = "password" /\ Called(calls, {"respond"})
  /\ CacheHas(TempCache, r.RequestId)
  /\ TempCache[r.RequestId].request.ProtocolBinding = BindingRedirect
  /\ w.status = 302 /\ w.location.to = LoginPage
  /\ w.cookie.t = "uuid"

(***************************************************************************)
(* SpecArt: getArtifact, byte by byte, called twice for one entity ID.     *)
(***************************************************************************)
(* The entity IDs and UUID strings getArtifact is applied to, each with    *)
(* the number its octets are told apart by.                                *)
EntityIDs ==
  {[s |-> "https://idp.example/", code |-> 1], [s |-> "https://idp.example", code |-> 2],
   [s |-> "urn:idp", code |-> 3], [s |-> "", code |-> 4]}

UUIDStrings == {[s |-> UUID(n), code |-> 16 + n] : n \in 1..(MaxIds + 2)}

(* sha1.Sum: 20 octets, different for different inputs. *)
Sum(data) == [i \in 0..19 |-> (data.code * 37 + i * 11) % 256]

(* base64.StdEncoding.EncodeToString on a sequence of octets: four         *)
(* characters (0..63) for every three octets, 64 standing for the padding  *)
(* character.                                                              *)
EncodeToString(src) ==
  LET n    == Len(src)
      full == n \div 3
      Quad(k) ==
        LET b0 == src[3 * k + 1]
            b1 == IF 3 * k + 2 <= n THEN src[3 * k + 2] ELSE 0
            b2 == IF 3 * k + 3 <= n THEN src[3 * k + 3] ELSE 0
        IN  <<b0 \div 4,
              (b0 % 4) * 16 + (b1 \div 16),
              IF 3 * k + 2 <= n THEN (b1 % 16) * 4 + (b2 \div 64) ELSE 64,
              IF 3 * k + 3 <= n THEN b2 % 64 ELSE 64>>
  IN  [j \in 1..(4 * ((n + 2) \div 3)) |-> Quad((j - 1) \div 4)[((j - 1) % 4) + 1]]

(* getArtifact with the type code written to the first octet. *)
getArtifactOctets_TypeCodeFirst(entityID, uuid) ==
  LET a0      == [i \in 0..43 |-> 0]
      a1      == [a0 EXCEPT ![0] = 4]
      a2      == [a1 EXCEPT ![3] = 1]
      source  == Sum(entityID)
      a3      == [i \in 0..43 |-> IF 4 <= i /\ i < 24 THEN source[i - 4] ELSE a2[i]]
      message == Sum(uuid)
      a4      == [i \in 0..43 |-> IF 24 <= i /\ i < 44 THEN message[i - 24] ELSE a3[i]]
  IN  EncodeToString([i \in 1..44 |-> a4[i - 1]])

(* getArtifact for the UUID string it draws: the 44 octets it fills, in    *)
(* base64.                                                                 *)
getArtifactOctets(entityID, uuid) ==
  LET a0      == [i \in 0..43 |-> 0]
      a1      == [a0 EXCEPT ![1] = 4]
      a2      == [a1 EXCEPT ![3] = 1]
      source  == Sum(entityID)
      a3      == [i \in 0..43 |-> IF 4 <= i /\ i < 24 THEN source[i - 4] ELSE a2[i]]
      message == Sum(uuid)
      a4      == [i \in 0..43 |-> IF 24 <= i /\ i < 44 THEN message[i - 24] ELSE a3[i]]
  IN  EncodeToString([i \in 1..44 |-> a4[i - 1]])

InitArt ==
  /\ sps = Registry
  /\ TempCache = EmptyCache /\ UserCache = EmptyCache /\ nextId = 1
  /\ r = NoRequest /\ w = NoResponse /\ calls = <<>>
  /\ args \in {<<e, u1, u2>> : e \in EntityIDs, u1 \in UUIDStrings, u2 \in UUIDStrings}
  /\ ret = NoRet

(* Two calls of getArtifact(entityID), drawing the UUIDs args[2], args[3]. *)
GetArtifactStep ==
  /\ ret = NoRet
  /\ ret' = [done |-> TRUE, first |-> getArtifactOctets(args[1], args[2]),
             second |-> getArtifactOctets(args[1], args[3])]
  /\ UNCHANGED <<sps, TempCache, UserCache, nextId, r, w, calls, args>>

NextArt == GetArtifactStep

SpecArt == InitArt /\ [][NextArt]_vars

(***************************************************************************)
(* Claims about getArtifact, under SpecArt.                                *)
(***************************************************************************)
(* The octets a base64 string decodes to, numbered from 0. *)
Base64Decode(s) ==
  LET pads == Cardinality({j \in 1..Len(s) : s[j] = 64})
      v(j) == IF s[j] = 64 THEN 0 ELSE s[j]
  IN  [i \in 0..(3 * (Len(s) \div 4) - pads - 1) |->
         LET g == 4 * (i \div 3)
         IN  CASE i % 3 = 0 -> v(g + 1) * 4 + (v(g + 2) \div 16)
               [] i % 3 = 1 -> (v(g + 2) % 16) * 16 + (v(g + 3) \div 4)
               [] OTHER     -> (v(g + 3) % 4) * 64 + v(g + 4)]

(* C20: getArtifact returns the base64 encoding of exactly 44 octets:      *)
(* 0, 4, 0, 1, then the SHA-1 digest of the entity ID in octets 4..23 and  *)
(* the SHA-1 digest of the UUID string in octets 24..43; two calls with    *)
(* different UUIDs differ, and only in octets 24..43.                      *)
C20_ArtifactLayout ==
  ret.done =>
    LET a == Base64Decode(ret.first)
        b == Base64Decode(ret.second)
    IN  /\ Len(ret.first) = 60 /\ ret.first[60] = 64
        /\ \A j \in 1..59 : ret.first[j] \in 0..63
        /\ DOMAIN a = 0..43 /\ DOMAIN b = 0..43
        /\ <<a[0], a[1], a[2], a[3]>> = <<0, 4, 0, 1>>
        /\ \A i \in 4..23 : a[i] = Sum(args[1])[i - 4]
        /\ \A i \in 24..43 : a[i] = Sum(args[2])[i - 24]
        /\ \A i \in 24..43 : b[i] = Sum(args[3])[i - 24]
        /\ \A i \in 0..23 : a[i] = b[i]
        /\ args[2] # args[3] => ret.first # ret.second

(* getArtifact has returned two different artifacts for one entity ID.     *)
C20_Witness ==
  /\ ret.done /\ args[2] # args[3]
  /\ ret.first # ret.second
  /\ Len(ret.first) = 60

(***************************************************************************)
(* Artifact resolution: transport authentication and the result.           *)
(***************************************************************************)
(* The step serves an artifact resolution request. *)
ResolveServed == Handled /\ r'.kind = "resolve"

(* C21: an ArtifactResolve request that presents no client certificate is  *)
(* answered with 401; its body is not decoded, TempCache is not read, no   *)
(* assertion is built or signed, and the caches stay as they were.         *)
C21_ResolveNeedsClientCert ==
  [][(ResolveServed /\ r'.Cert = "")
       => /\ w'.status = 401 /\ w'.body = ErrNoCert
          /\ ~Called(calls', {"xml.Decode", "TempCache.Get", "makeAuthnResponse",
                              "CreateSignature"})
          /\ "envelope" \notin DOMAIN w'
          /\ TempCache' = TempCache /\ UserCache' = UserCache]_vars

(* A request without a certificate was turned down although TempCache      *)
(* holds its artifact.                                                     *)
C21_Witness ==
  /\ r.kind = "resolve" /\ r.Cert = "" /\ w.status = 401
  /\ CacheHas(TempCache, r.Artifact)

(* The step resolves an artifact: the request is answered with 200. *)
ResolvedNow == ResolveServed /\ w'.status = 200

(* The assertion of the resolved envelope is built from the user and the   *)
(* request sendArtifactResponse stored under the artifact, and signed.     *)
AssertionOfStored ==
  LET stored    == TempCache[r'.Artifact]
      assertion == w'.envelope.Response.Assertion
  IN  /\ assertion.Subject.Value = stored.user.Name
      /\ assertion.Subject.Format = stored.user.Format
      /\ assertion.Subject.SPNameQualifier = stored.request.Issuer
      /\ assertion.Subject.Recipient = stored.request.AssertionConsumerServiceURL
      /\ assertion.AttributeStatement = stored.user.Attributes
      /\ assertion.AuthnContextClassRef = stored.user.Context
      /\ assertion.Audience = stored.request.Issuer
      /\ assertion.Signature = CreateSignature([assertion EXCEPT !.Signature = NoSignature])

(* C22 as stated: a successful ArtifactResolve with ID x yields an         *)
(* envelope whose signed Response has InResponseTo = x and whose assertion *)
(* is built from the stored user and the stored request.                   *)
C22_ResponseAnswersResolve ==
  [][ResolvedNow
       => /\ w'.envelope.Response.InResponseTo = r'.ID
          /\ AssertionOfStored]_vars

(* C22, amended: a successful ArtifactResolve with ID x yields an envelope *)
(* whose ArtifactResponse has InResponseTo = x; the signed Response it     *)
(* wraps has InResponseTo equal to the ID of the stored AuthnRequest, and  *)
(* its assertion is built from the stored user and the stored request      *)
(* (subject = the user's Name, audience = the request's Issuer).           *)
C22_ArtifactResponseAnswersResolve ==
  [][ResolvedNow
       => /\ w'.envelope.InResponseTo = r'.ID
          /\ w'.envelope.Response.InResponseTo = TempCache[r'.Artifact].request.ID
          /\ w'.envelope.Response.Assertion.Subject.InResponseTo
               = TempCache[r'.Artifact].request.ID
          /\ AssertionOfStored]_vars

(* An artifact stored for the password user was resolved by a request      *)
(* whose ID differs from the stored request's.                             *)
C22_Witness ==
  /\ Resolved
  /\ w.envelope.InResponseTo = "_res2"
  /\ w.envelope.Response.InResponseTo = "_abc"
  /\ w.envelope.Response.Assertion.Subject.Value \in {Alice, Bob}

(***************************************************************************)
(* verifyDSA (SpecSig).                                                    *)
(***************************************************************************)
(* verifySignature handed the signature to verifyDSA. *)
DSAChecked == ret.done /\ ret.hashed /\ ret.v = "dsa"

(* The signature value verifyDSA was given and the digest it was to verify. *)
CheckedSignature == SigBytes(FormGet(ParseForm(args.rawQuery), KSignature))

CheckedSum == [h |-> ret.h, m |-> ret.octets]

(* C26: verifyDSA rejects, before DSA verification and the key it needs,   *)
(* a signature whose DER decoding leaves trailing octets and one whose R   *)
(* or S is not positive; it succeeds only when decoding consumed all       *)
(* octets, R > 0, S > 0 and dsa.Verify accepts.                            *)
C26_VerifyDSARejects ==
  DSAChecked =>
    /\ CheckedSignature.asn1 = "rest" => ret.err = ErrTrailing
    /\ (CheckedSignature.asn1 = "ok" /\ (CheckedSignature.R <= 0 \/ CheckedSignature.S <= 0))
         => ret.err = ErrZeroNeg
    /\ ret.err = ""
         => /\ CheckedSignature.asn1 = "ok"
            /\ CheckedSignature.R > 0 /\ CheckedSignature.S > 0
            /\ args.sp.publicKey.type = "dsa"
            /\ dsaVerify(args.sp.publicKey, CheckedSum, CheckedSignature)

(* A signature the key holder made over the very octets, with one octet    *)
(* appended, was rejected for the trailing data.                           *)
C26_Witness ==
  /\ DSAChecked
  /\ CheckedSignature.asn1 = "rest"
  /\ args.sp.publicKey.type = "dsa"
  /\ dsaVerify(args.sp.publicKey, CheckedSum, CheckedSignature)
  /\ ret.err = ErrTrailing

(* A signature with S = 0 was rejected, and one verified. *)
C26_WitnessZero ==
  /\ DSAChecked
  /\ CheckedSignature.asn1 = "ok" /\ CheckedSignature.S = 0
  /\ dsaVerify(args.sp.publicKey, CheckedSum, CheckedSignature)
  /\ ret.err = ErrZeroNeg

(***************************************************************************)
(* The audit record.                                                       *)
(***************************************************************************)
(* The positions of the log at which op was called. *)
CalledAt(log, op) == {i \in 1..Len(log) : log[i].op = op}

(* The step authenticates the client certificate: the SSO handler reached  *)
(* loginWithCert, the request carries a certificate and no attribute       *)
(* source fails.                                                           *)
CertAuthenticated ==
  /\ Handled /\ r'.kind = "sso"
  /\ Called(calls', {"getCertFromRequest"})
  /\ r'.Cert # ""
  /\ ~(r'.Fault = "AddAttributes" /\ r'.Sources # <<>>)

(* The step authenticates the login form: the password handler reached the *)
(* validator and the validator accepted.                                   *)
PasswordAuthenticated ==
  /\ Handled /\ r'.kind = "password"
  /\ Called(calls', {"Validate"})
  /\ Validate(r'.Ldap, r'.Username, r'.Password).err = ""

(* C27: Auditor.LogSuccess is called exactly once per successful           *)
(* authentication, with CertificateLogin or PasswordLogin as it was, and   *)
(* before respond; it is not called when authentication fails (validator   *)
(* error, attribute source error), nor when an existing session serves the *)
(* request, nor by any other request.                                      *)
C27_AuditOncePerAuthentication ==
  [][Handled =>
       LET audits == CalledAt(calls', "LogSuccess")
       IN  /\ Cardinality(audits)
                = IF CertAuthenticated \/ PasswordAuthenticated THEN 1 ELSE 0
           /\ \A i \in audits :
                /\ CalledAt(calls', "respond") # {}
                /\ \A j \in CalledAt(calls', "respond") : i < j
                /\ calls'[i].loginType
                     = IF r'.kind = "sso" THEN CertificateLogin ELSE PasswordLoginType
                /\ calls'[i].user.Name = IF r'.kind = "sso" THEN r'.Cert ELSE r'.Username
           /\ SessionPresented => audits = {}]_vars

(* A password login was audited and then answered; and a certificate login *)
(* was turned down for its attribute source without an audit record.       *)
C27_Witness ==
  /\ r.kind = "password" /\ w.status = 200
  /\ Cardinality(CalledAt(calls, "LogSuccess")) = 1
  /\ \A i \in CalledAt(calls, "LogSuccess") :
       calls[i].loginType = PasswordLoginType /\ i + 1 \in CalledAt(calls, "respond")

C27_WitnessFailed ==
  /\ r.kind = "sso" /\ r.Cert # "" /\ r.Fault = "AddAttributes"
  /\ Called(calls, {"setUserAttributes"}) /\ ~Called(calls, {"LogSuccess"})

(***************************************************************************)
(* SpecLogin: one login, by client certificate or by the login form,       *)
(* served by an IDP the embedder configured with some attribute sources,   *)
(* while the directory service is in some condition.                       *)
(***************************************************************************)
SourceA ==
  [users |-> (Alice :> <<Attribute("group", <<"a">>)>>) @@ (Bob :> <<Attribute("group", <<"a">>)>>)]

SourceB ==
  [users |-> (Alice :> <<Attribute("mail", <<"alice@example">>)>>)
             @@ (Bob :> <<Attribute("team", <<"b">>)>>)]

(* IDP.AttributeSources as the embedder can leave it. *)
GivenSources ==
  {NoSources, SourceList(<<>>), SourceList(<<SourceA>>),
   SourceList(<<SourceA, SourceB>>), SourceList(<<SourceB, SourceA>>)}

(* The directory answers; it cannot be dialled; the administrator cannot   *)
(* bind; the search fails; it cannot be dialled any more once the search   *)
(* has answered.                                                           *)
LdapConditions == {"", "ldap.DialURL", "ldap.AdminBind", "ldap.Search", "ldap.DialUser"}

MapOrders ==
  {LdapAttributes, [i \in 1..Len(LdapAttributes) |-> LdapAttributes[Len(LdapAttributes) + 1 - i]]}

(* No login request stored; one stored for HTTP-POST; one for an artifact. *)
LoginPreStates ==
  {Constructed, After(Constructed, FormLogin),
   After(Constructed,
         SSORequest(HonestQuery(AuthnRequestXML("_abc", SP1, "", BindingArtifact, 0), <<>>),
                    NoKey, "", ""))}

CertLoginRequests(given) ==
  {[SSORequest(HonestQuery(AuthnRequestXML("_abc", SP1, "", b, 0), <<>>), NoKey, Alice, fault)
      EXCEPT !.Sources = configureAttributeSources(given)] :
     b \in {BindingPOST, BindingArtifact}, fault \in {"", "AddAttributes"}}

FormLoginRequests ==
  {[PasswordRequest(UUID(1), user, pw, FALSE, "") EXCEPT !.Ldap = c, !.MapOrder = o] :
     user \in {Bob, "ghost"}, pw \in {"secret", "wrong", ""}, c \in LdapConditions,
     o \in MapOrders}

InitLogin ==
  /\ \E given \in GivenSources, pre \in LoginPreStates :
       /\ args = [AttributeSources |-> given, pre |-> pre]
       /\ TempCache = pre.TempCache /\ UserCache = pre.UserCache /\ nextId = pre.nextId
  /\ sps = Registry
  /\ r = NoRequest /\ w = NoResponse /\ calls = <<>> /\ ret = NoRet

(* The certificate login of a request to the SSO endpoint. *)
ServeCertLogin ==
  /\ r = NoRequest
  /\ \E rq \in CertLoginRequests(args.AttributeSources) :
       \E o \in {DefaultRedirectSSOHandler(sps, StateOf, rq)} : Serve(o, rq)

(* The login form posted. *)
ServeFormLogin ==
  /\ r = NoRequest
  /\ \E rq \in FormLoginRequests :
       \E o \in {DefaultPasswordLoginHandler(StateOf, rq)} : Serve(o, rq)

NextLogin == ServeCertLogin \/ ServeFormLogin

SpecLogin == InitLogin /\ [][NextLogin]_vars

(***************************************************************************)
(* Failed password logins (SpecLogin).                                     *)
(***************************************************************************)
(* A login form that parses and whose credentials the validator turns      *)
(* down, for whatever reason.                                              *)
ValidatorFails(rq) ==
  /\ rq.kind = "password" /\ ~rq.FormErr
  /\ Validate(rq.Ldap, rq.Username, rq.Password).err # ""

(* C25: two posts of the login form that differ only in the reason the     *)
(* validator fails for (wrong password, unknown user, empty search result, *)
(* dial, bind or search error) are answered with the same response and     *)
(* leave the same caches.                                                  *)
C25_FailuresIndistinguishable ==
  ValidatorFails(r) =>
    \A rq \in FormLoginRequests :
      (ValidatorFails(rq) /\ rq.RequestId = r.RequestId) =>
        LET o == DefaultPasswordLoginHandler(args.pre, rq)
        IN  /\ o.w = w
            /\ o.TempCache = TempCache /\ o.UserCache = UserCache

(* The right password of a known user was turned down while the directory  *)
(* could not be searched, with the redirect a wrong password gets.         *)
C25_Witness ==
  /\ ValidatorFails(r)
  /\ r.Ldap = "ldap.Search" /\ <<r.Username, r.Password>> \in Credentials
  /\ CacheHas(TempCache, r.RequestId)
  /\ w.status = 302 /\ w.location.error = QueryEscape(ErrTryAgain)
  /\ \E rq \in FormLoginRequests :
       rq.Ldap = "" /\ rq.Password = "wrong" /\ ValidatorFails(rq)

(***************************************************************************)
(* The attributes of the user handed to respond (SpecLogin).               *)
(***************************************************************************)
(* The chain of an IDP the embedder left with given. *)
ChainOf(given) == IF given.nil THEN <<DefaultAttributeSource>> ELSE given.list

(* What the sources of chain hold for name, in chain order. *)
RECURSIVE ChainAttributes(_, _)
ChainAttributes(chain, name) ==
  IF chain = <<>> THEN <<>>
  ELSE (IF name \in DOMAIN Head(chain).users THEN Head(chain).users[name] ELSE <<>>)
         \o ChainAttributes(Tail(chain), name)

(* respond was called with a user whose attributes are attrs. *)
RespondedWithAttributes(attrs) ==
  /\ CalledAt(calls, "respond") # {}
  /\ \A i \in CalledAt(calls, "respond") : calls[i].user.Attributes = attrs

(* The login by certificate, or by the form, succeeded. *)
CertLoggedIn == r.kind = "sso" /\ Called(calls, {"LogSuccess"})

FormLoggedIn == r.kind = "password" /\ Called(calls, {"LogSuccess"})

(* C28: for certificate and password login alike the user passed to        *)
(* respond carries the attributes of every configured attribute source, in *)
(* chain order; after a password login these follow the attributes the     *)
(* validator supplied; an IDP given no sources has the default source in   *)
(* its chain.                                                              *)
C28_AttributesFromChain ==
  /\ CertLoggedIn
       => RespondedWithAttributes(ChainAttributes(ChainOf(args.AttributeSources), r.Cert))
  /\ FormLoggedIn
       => RespondedWithAttributes(
            buildAttributes(Validate(r.Ldap, r.Username, r.Password).attrs, r.MapOrder)
              \o ChainAttributes(ChainOf(args.AttributeSources), r.Username))

(* The part of C28 about certificate login. *)
CertLoginAttributesFromChain ==
  CertLoggedIn
    => RespondedWithAttributes(ChainAttributes(ChainOf(args.AttributeSources), r.Cert))

(* A certificate login under a chain of two sources went to respond with   *)
(* the attributes of both.                                                 *)
CertLoginAttributes_Witness ==
  /\ CertLoggedIn /\ Len(ChainOf(args.AttributeSources)) = 2
  /\ RespondedWithAttributes(SourceB.users[Alice] \o SourceA.users[Alice])

(***************************************************************************)
(* Cache errors (Spec).                                                    *)
(***************************************************************************)
(* TempCache.Set is called in the step and fails: where the SSO handler    *)
(* saves the request for the login form, or in sendArtifactResponse.       *)
TempSetFails ==
  /\ Handled /\ r'.Fault = "TempCache.Set"
  /\ \/ r'.kind = "sso" /\ Called(calls', {"getCertFromRequest"}) /\ r'.Cert = ""
     \/ RespondCalled /\ RespondBinding = BindingArtifact

(* UserCache.Set is called in the step, by respond, and fails. *)
UserSetFails == RespondCalled /\ r'.Fault = "UserCache.Set"

(* The response reports the cache error: an error status with the message, *)
(* or, from the password handler, the redirect to the login page with it.  *)
CacheErrorReported ==
  IF r'.kind = "password"
  THEN /\ w'.status = 302 /\ w'.location.to = LoginPage
       /\ "error" \in DOMAIN w'.location
       /\ w'.location.error = QueryEscape(ErrCacheSet)
  ELSE w'.status \in 400..599 /\ w'.body = ErrCacheSet

(* C29: whenever TempCache.Set or UserCache.Set fails during the SSO       *)
(* handler, respond or sendArtifactResponse, the handler answers with an   *)
(* error and the response carries no cookie, redirect or artifact whose    *)
(* key was not stored: no SAMLart goes to the ACS without its blob in      *)
(* TempCache.                                                              *)
C29_CacheErrorsAbort ==
  [][(TempSetFails \/ UserSetFails)
       => /\ CacheErrorReported
          /\ w'.cookie.t = "uuid" => CacheHas(UserCache', w'.cookie)
          /\ w'.location.key.t = "artifact" => CacheHas(TempCache', w'.location.key)
          /\ (r'.kind = "sso" /\ w'.location.key.t = "uuid")
               => CacheHas(TempCache', w'.location.key)]_vars

(***************************************************************************)
(* The status of an error response (Spec).                                 *)
(***************************************************************************)
(* The messages of the Input, Protocol and Auth errors the SSO, SLO and    *)
(* ArtifactResolve handlers report, and of the Internal ones.              *)
InputProtocolAuthErrors ==
  {ErrXML, ErrBase64, ErrEscape, ErrRelayState, ErrTrouble,
   ErrNoIssuer, ErrUnregistered, ErrNoACS, ErrACSMismatch, ErrNoSLO, ErrSLOMismatch,
   ErrBinding, ErrUnsupportedAlg, ErrRSA, ErrASN1, ErrTrailing, ErrZeroNeg, ErrDSA,
   ErrNoCert}

InternalErrors == {ErrSigner}

(* C30: in the SSO, SLO and ArtifactResolve handlers an Input, Protocol or *)
(* Auth error is answered with a 4xx status and an Internal error with     *)
(* 500, the message being the plain-text body.                             *)
C30_StatusMapping ==
  [][(Handled /\ r'.kind \in {"sso", "slo", "resolve"})
       => /\ w'.body \in InputProtocolAuthErrors => w'.status \in 400..499
          /\ w'.body \in InternalErrors => w'.status = 500]_vars

(* The mapping as the SSO and SLO handlers keep it. *)
StatusMappingSSOAndSLO ==
  [][(Handled /\ r'.kind \in {"sso", "slo"})
       => /\ w'.body \in InputProtocolAuthErrors => w'.status \in 400..499
          /\ w'.body \in InternalErrors => w'.status = 500]_vars

(***************************************************************************)
(* Service provider metadata: ReadSPMetadata, SaveSpFromMetadata and       *)
(* configureSPs.                                                           *)
(***************************************************************************)
ErrNoX509Data ==
  "service provider's SSO descriptor does not contain required X509Data element"

ErrPEM == "failed to parse PEM block containing the public key"

ErrCertificate == "failed to parse certificate"

ErrUnmarshalKey == "error decoding sps"

ErrWriteConfig == "error writing config"

(* The unexported publicKey of a ServiceProvider no certificate was parsed *)
(* for.                                                                    *)
NoPublicKey == [type |-> "", id |-> ""]

(* The text of an X509Certificate element: whether it is base64, whether   *)
(* the octets are a certificate, and the key of the certificate.           *)
CertText(b64, der, key) == [b64 |-> b64, der |-> der, key |-> key]

(* An SP entity descriptor as it reads from the stream: wf is FALSE when   *)
(* the XML does not decode, X509Data when the element is present.          *)
Metadata(wf, id, x509Data, cert, acs, slo) ==
  [wf |-> wf, EntityID |-> id, X509Data |-> x509Data, X509Certificate |-> cert,
   AssertionConsumerService |-> acs, SingleLogoutService |-> slo]

(* parseCertificate: err, and the service provider with its public key.    *)
parseCertificate(sp) ==
  IF ~sp.Certificate.b64 THEN [err |-> ErrPEM, sp |-> sp]
  ELSE IF ~sp.Certificate.der THEN [err |-> ErrCertificate, sp |-> sp]
  ELSE [err |-> "", sp |-> [sp EXCEPT !.publicKey = sp.Certificate.key]]

(* convertMetadata: the ServiceProvider of a decoded descriptor. *)
convertMetadata(spMeta) ==
  IF ~spMeta.X509Data THEN [err |-> ErrNoX509Data, sp |-> <<>>]
  ELSE [err |-> "",
        sp |-> [EntityID |-> spMeta.EntityID,
                AssertionConsumerServices |-> spMeta.AssertionConsumerService,
                SingleLogoutServices |-> spMeta.SingleLogoutService,
                Certificate |-> spMeta.X509Certificate,
                publicKey |-> NoPublicKey]]

(* ReadSPMetadata: decode, then convert. *)
ReadSPMetadata(metadata) ==
  IF ~metadata.wf THEN [err |-> ErrXML, sp |-> <<>>]
  ELSE convertMetadata(metadata)

(* viper.UnmarshalKey("sps", &sps): the exported fields of every entry. *)
UnmarshalSps(stored) ==
  [i \in 1..Len(stored) |->
     [EntityID |-> stored[i].EntityID,
      AssertionConsumerServices |-> stored[i].AssertionConsumerServices,
      SingleLogoutServices |-> stored[i].SingleLogoutServices,
      Certificate |-> stored[i].Certificate,
      publicKey |-> NoPublicKey]]

(* SaveSpFromMetadata as it would be if the provider were always appended. *)
SaveSpFromMetadata_Append(stored, metadata, fault) ==
  With(ReadSPMetadata(metadata), LAMBDA read :
  IF read.err # "" THEN [err |-> read.err, sps |-> stored]
  ELSE IF fault = "UnmarshalKey" THEN [err |-> ErrUnmarshalKey, sps |-> stored]
  ELSE [err |-> IF fault = "WriteConfig" THEN ErrWriteConfig ELSE "",
        sps |-> Append(UnmarshalSps(stored), read.sp)])

(* SaveSpFromMetadata: the list under the key sps after the call, and the  *)
(* error returned. The provider replaces the first entry with its EntityID *)
(* or is appended; viper.Set has happened when WriteConfig fails.          *)
SaveSpFromMetadata(stored, metadata, fault) ==
  With(ReadSPMetadata(metadata), LAMBDA read :
  IF read.err # "" THEN [err |-> read.err, sps |-> stored]
  ELSE IF fault = "UnmarshalKey" THEN [err |-> ErrUnmarshalKey, sps |-> stored]
  ELSE
  LET list  == UnmarshalSps(stored)
      found == {i \in 1..Len(list) : list[i].EntityID = read.sp.EntityID}
      saved == IF found = {} THEN Append(list, read.sp)
               ELSE [list EXCEPT ![CHOOSE i \in found : \A j \in found : i <= j] = read.sp]
  IN  [err |-> IF fault = "WriteConfig" THEN ErrWriteConfig ELSE "", sps |-> saved])

(* configureSPs after initSPs: the certificate of every stored provider is *)
(* parsed and the providers are indexed by EntityID; the first certificate *)
(* that does not parse ends it with its error.                             *)
configureSPs(stored) ==
  LET list   == UnmarshalSps(stored)
      failed == {i \in 1..Len(list) : parseCertificate(list[i]).err # ""}
  IN  IF failed # {}
      THEN [err |-> parseCertificate(list[CHOOSE i \in failed : \A j \in failed : i <= j]).err,
            sps |-> <<>>]
      ELSE [err |-> "",
            sps |-> [id \in {list[i].EntityID : i \in 1..Len(list)} |->
                       parseCertificate(
                         list[CHOOSE i \in 1..Len(list) :
                                /\ list[i].EntityID = id
                                /\ \A j \in 1..Len(list) :
                                     list[j].EntityID = id => j <= i]).sp]]

(***************************************************************************)
(* SpecSP: metadata ingested into the stored list of service providers,    *)
(* and the registry built from the list.                                   *)
(***************************************************************************)
SP0 == "https://sp0.example/"

GoodCert(key) == CertText(TRUE, TRUE, key)

(* Certificates: two that parse, text that is not base64, octets that are  *)
(* no certificate.                                                         *)
CertTexts ==
  {GoodCert(Key1), GoodCert(Key2), CertText(FALSE, FALSE, NoPublicKey),
   CertText(TRUE, FALSE, NoPublicKey)}

MetaACS(loc) == <<[Index |-> 0, IsDefault |-> TRUE, Binding |-> BindingPOST, Location |-> loc]>>

(* Descriptors of two providers with either endpoint and any certificate   *)
(* text; one without X509Data; one that is not XML.                        *)
Metadatas ==
  {Metadata(TRUE, id, TRUE, cert, MetaACS(loc), <<>>) :
     id \in {SP1, SP2}, cert \in CertTexts, loc \in {Loc1, Loc2}}
  \cup {Metadata(TRUE, SP1, FALSE, CertText(TRUE, FALSE, NoPublicKey), MetaACS(Loc1), <<>>),
        Metadata(FALSE, "", FALSE, CertText(TRUE, FALSE, NoPublicKey), <<>>, <<>>)}

SaveFaults == {"", "UnmarshalKey", "WriteConfig"}

(* The stored lists the process starts with: none, or two providers. *)
StoredLists ==
  {<<>>,
   <<convertMetadata(Metadata(TRUE, SP0, TRUE, GoodCert(Key1), MetaACS(Loc1), <<>>)).sp,
     convertMetadata(Metadata(TRUE, SP1, TRUE, GoodCert(Key1), MetaACS(Loc1), <<>>)).sp>>}

(* The number of descriptors ingested in one behaviour. *)
MaxSaves == 3

InitSP ==
  /\ sps \in StoredLists
  /\ args = [saved |-> FALSE]
  /\ ret = NoRet
  /\ nextId = 1
  /\ TempCache = EmptyCache /\ UserCache = EmptyCache
  /\ r = NoRequest /\ w = NoResponse /\ calls = <<>>

(* One descriptor ingested: add service-provider, or a metadata URL        *)
(* fetched by initSPs.                                                     *)
SaveSp ==
  /\ nextId <= MaxSaves
  /\ \E metadata \in Metadatas, fault \in SaveFaults :
       \E o \in {SaveSpFromMetadata(sps, metadata, fault)} :
         /\ sps' = o.sps
         /\ args' = [saved |-> TRUE, metadata |-> metadata, fault |-> fault]
         /\ ret' = [done |-> TRUE, op |-> "SaveSpFromMetadata", err |-> o.err]
  /\ nextId' = nextId + 1
  /\ UNCHANGED <<TempCache, UserCache, r, w, calls>>

(* The IDP is configured from the stored list. *)
ConfigureSPs ==
  /\ \E o \in {configureSPs(sps)} :
       ret' = [done |-> TRUE, op |-> "configureSPs", err |-> o.err, registry |-> o.sps]
  /\ UNCHANGED <<sps, args, nextId, TempCache, UserCache, r, w, calls>>

NextSP == SaveSp \/ ConfigureSPs

SpecSP == InitSP /\ [][NextSP]_vars

(***************************************************************************)
(* Claims about the stored list of service providers, under SpecSP.        *)
(***************************************************************************)
(* The list holds at most one entry per EntityID. *)
OnePerEntityID(list) ==
  \A i, j \in 1..Len(list) : list[i].EntityID = list[j].EntityID => i = j

(* The step ingests a descriptor and SaveSpFromMetadata returns no error. *)
Ingested == args'.saved /\ nextId' = nextId + 1 /\ ret'.err = ""

(* The step ingests a descriptor. *)
Ingesting == args'.saved /\ nextId' = nextId + 1

(* The entry a descriptor is stored as. *)
EntryOf(metadata) ==
  [EntityID |-> metadata.EntityID,
   AssertionConsumerServices |-> metadata.AssertionConsumerService,
   SingleLogoutServices |-> metadata.SingleLogoutService,
   Certificate |-> metadata.X509Certificate,
   publicKey |-> NoPublicKey]

(* The positions of the list that hold the EntityID. *)
PositionsOf(list, id) == {i \in 1..Len(list) : list[i].EntityID = id}

(* C23: SaveSpFromMetadata keeps the stored list at one entry per          *)
(* EntityID; ingesting the descriptor just ingested once more leaves the   *)
(* list as it is; a descriptor whose EntityID is stored replaces that      *)
(* entry in place and changes no other entry, and one whose EntityID is    *)
(* new is appended.                                                        *)
C23_IdempotentUpsert ==
  [][/\ OnePerEntityID(sps) => OnePerEntityID(sps')
     /\ (OnePerEntityID(sps) /\ Ingested) =>
          /\ SaveSpFromMetadata(sps', args'.metadata, "").sps = sps'
          /\ \A i \in PositionsOf(sps, args'.metadata.EntityID) :
               /\ Len(sps') = Len(sps)
               /\ sps'[i] = EntryOf(args'.metadata)
               /\ \A j \in 1..Len(sps) : j # i => sps'[j] = sps[j]
          /\ PositionsOf(sps, args'.metadata.EntityID) = {}
               => sps' = Append(sps, EntryOf(args'.metadata))]_vars

(* The descriptor of a stored provider was ingested with another endpoint: *)
(* the list is as long as the one the process started with, the provider   *)
(* is still second and has the new endpoint.                               *)
C23_Witness ==
  /\ args.saved /\ ret.done /\ ret.op = "SaveSpFromMetadata" /\ ret.err = ""
  /\ Len(sps) = 2 /\ sps[1].EntityID = SP0 /\ sps[2].EntityID = SP1
  /\ args.metadata.EntityID = SP1
  /\ sps[2].AssertionConsumerServices = MetaACS(Loc2)

(* The certificate text of a stored entry decodes to a certificate. *)
Usable(sp) == parseCertificate(sp).err = ""

(* C24: SaveSpFromMetadata fails and leaves the stored list as it was when *)
(* the descriptor is not well-formed, has no X509Data, or carries a        *)
(* certificate that does not decode; no provider with an unusable          *)
(* certificate is ever written.                                            *)
C24_IngestRejectsBadMetadata ==
  [][Ingesting =>
       /\ (\/ ~args'.metadata.wf
           \/ ~args'.metadata.X509Data
           \/ ~Usable(EntryOf(args'.metadata)))
            => ret'.err # "" /\ sps' = sps
       /\ \A i \in 1..Len(sps') : Usable(sps'[i])]_vars

(* The two rejections SaveSpFromMetadata does make. *)
IngestRejectsUnreadable ==
  [][Ingesting =>
       ((~args'.metadata.wf \/ ~args'.metadata.X509Data)
          => ret'.err \in {ErrXML, ErrNoX509Data} /\ sps' = sps)]_vars

(* A provider whose certificate does not parse is in the stored list, and  *)
(* configureSPs fails on it.                                               *)
StoredUnusable ==
  /\ ret.done /\ ret.op = "configureSPs" /\ ret.err \in {ErrPEM, ErrCertificate}
  /\ \E i \in 1..Len(sps) : ~Usable(sps[i])

(***************************************************************************)
(* initSPs: the metadata URLs are fetched by concurrent tasks, each of     *)
(* which ingests what it fetched under one mutex; configureSPs builds the  *)
(* registry when all of them are done.                                     *)
(***************************************************************************)
(* The ServiceProvider of a task that has read none. *)
NoServiceProvider ==
  [EntityID |-> "", AssertionConsumerServices |-> <<>>, SingleLogoutServices |-> <<>>,
   Certificate |-> CertText(FALSE, FALSE, NoPublicKey), publicKey |-> NoPublicKey]

(* The key of a certificate that is neither an RSA nor a DSA key. *)
Key3 == [type |-> "ecdsa", id |-> "sp3-key"]

(* What a metadata URL gives: whether http.NewRequest takes the URL,       *)
(* whether httpClient.Do gets a response, and the body of the response.    *)
Fetched(valid, up, body) == [valid |-> valid, up |-> up, body |-> body]

NotXML == Metadata(FALSE, "", FALSE, CertText(TRUE, FALSE, NoPublicKey), <<>>, <<>>)

(* A URL that does not parse, a server that is down, descriptors of SP1    *)
(* with either endpoint, descriptors of SP2 with a DSA certificate, with   *)
(* octets that are no certificate, with an ECDSA certificate and with a    *)
(* certificate whose key algorithm x509 does not know (PublicKey is nil),  *)
(* and a body that is not XML.                                             *)
FetchResults ==
  {Fetched(FALSE, FALSE, NotXML), Fetched(TRUE, FALSE, NotXML), Fetched(TRUE, TRUE, NotXML)}
  \cup {Fetched(TRUE, TRUE, Metadata(TRUE, SP1, TRUE, GoodCert(Key1), MetaACS(loc), <<>>)) :
          loc \in {Loc1, Loc2}}
  \cup {Fetched(TRUE, TRUE, Metadata(TRUE, SP2, TRUE, cert, MetaACS(Loc2), <<>>)) :
          cert \in {GoodCert(Key2), CertText(TRUE, FALSE, NoPublicKey), GoodCert(Key3),
                   GoodCert(NoPublicKey)}}

(* The number of metadata URLs under the key sp-medata-urls. *)
MaxUrls == 2

UrlLists == UNION {[1..n -> FetchResults] : n \in 1..MaxUrls}

(* The list SaveSpFromMetadata sets: the provider replaces the first entry *)
(* with its EntityID or is appended.                                       *)
upsert(list, sp) ==
  LET found == {i \in 1..Len(list) : list[i].EntityID = sp.EntityID}
  IN  IF found = {} THEN Append(list, sp)
      ELSE [list EXCEPT ![CHOOSE i \in found : \A j \in found : i <= j] = sp]

(* A task of initSPs: where it is, the list it read under the key sps,     *)
(* the provider it read from the body, and the error it logged.            *)
Task(pc, list, sp, err) == [pc |-> pc, list |-> list, sp |-> sp, err |-> err]

Tasks == DOMAIN r

InitInit ==
  /\ sps \in StoredLists
  /\ \E urls \in UrlLists :
       /\ args = [urls |-> urls, stored |-> sps]
       /\ r = [t \in DOMAIN urls |-> Task("go", <<>>, NoServiceProvider, "")]
  /\ ret = [pc |-> "initSPs", waitGroup |-> 0, lock |-> 0, err |-> "",
            registry |-> <<>>]
  /\ nextId = 1
  /\ calls = <<>>
  /\ w = NoResponse
  /\ TempCache = EmptyCache /\ UserCache = EmptyCache

(* initSPs, one turn of the loop: waitGroup.Add(1) and the go statement. *)
Go ==
  /\ ret.pc = "initSPs" /\ nextId \in Tasks
  /\ ret' = [ret EXCEPT !.waitGroup = @ + 1]
  /\ r' = [r EXCEPT ![nextId].pc = "fetch"]
  /\ nextId' = nextId + 1
  /\ UNCHANGED <<sps, args, calls, w, TempCache, UserCache>>

(* The task: http.NewRequest and httpClient.Do; an error is logged and the *)
(* task returns.                                                           *)
Fetch(t) ==
  /\ r[t].pc = "fetch"
  /\ r' = [r EXCEPT ![t] =
             IF ~args.urls[t].valid THEN Task("Done", <<>>, NoServiceProvider, "NewRequest")
             ELSE IF ~args.urls[t].up THEN Task("Done", <<>>, NoServiceProvider, "Do")
             ELSE Task("Lock", <<>>, NoServiceProvider, "")]
  /\ UNCHANGED <<sps, args, ret, nextId, calls, w, TempCache, UserCache>>

(* The task as it would be if lock.Lock() did not wait. *)
Lock_NoMutex(t) ==
  /\ r[t].pc = "Lock"
  /\ ret' = [ret EXCEPT !.lock = t]
  /\ r' = [r EXCEPT ![t].pc = "ReadSPMetadata"]
  /\ UNCHANGED <<sps, args, nextId, calls, w, TempCache, UserCache>>

(* The task: lock.Lock(). *)
Lock(t) ==
  /\ r[t].pc = "Lock"
  /\ ret.lock = 0
  /\ ret' = [ret EXCEPT !.lock = t]
  /\ r' = [r EXCEPT ![t].pc = "ReadSPMetadata"]
  /\ UNCHANGED <<sps, args, nextId, calls, w, TempCache, UserCache>>

(* SaveSpFromMetadata, first half: ReadSPMetadata and                      *)
(* viper.UnmarshalKey("sps", &sps).                                        *)
Read(t) ==
  /\ r[t].pc = "ReadSPMetadata"
  /\ \E read \in {ReadSPMetadata(args.urls[t].body)}, fault \in {"", "UnmarshalKey"} :
       r' = [r EXCEPT ![t] =
               IF read.err # "" THEN Task("Unlock", <<>>, NoServiceProvider, read.err)
               ELSE IF fault = "UnmarshalKey"
               THEN Task("Unlock", <<>>, read.sp, ErrUnmarshalKey)
               ELSE Task("Set", UnmarshalSps(sps), read.sp, "")]
  /\ UNCHANGED <<sps, args, ret, nextId, calls, w, TempCache, UserCache>>

(* SaveSpFromMetadata, second half: the provider is put into the list the  *)
(* task read, viper.Set("sps", sps) and viper.WriteConfig().               *)
Set(t) ==
  /\ r[t].pc = "Set"
  /\ sps' = upsert(r[t].list, r[t].sp)
  /\ \E fault \in {"", "WriteConfig"} :
       r' = [r EXCEPT ![t].pc = "Unlock",
                      ![t].err = IF fault = "WriteConfig" THEN ErrWriteConfig ELSE ""]
  /\ calls' = Append(calls, t)
  /\ UNCHANGED <<args, ret, nextId, w, TempCache, UserCache>>

(* The task returns: the deferred lock.Unlock(). *)
Unlock(t) ==
  /\ r[t].pc = "Unlock"
  /\ ret' = [ret EXCEPT !.lock = 0]
  /\ r' = [r EXCEPT ![t].pc = "Done"]
  /\ UNCHANGED <<sps, args, nextId, calls, w, TempCache, UserCache>>

(* The task returns: the deferred waitGroup.Done(). *)
Done(t) ==
  /\ r[t].pc = "Done"
  /\ ret' = [ret EXCEPT !.waitGroup = @ - 1]
  /\ r' = [r EXCEPT ![t].pc = "finished"]
  /\ UNCHANGED <<sps, args, nextId, calls, w, TempCache, UserCache>>

(* initSPs after the loop: waitGroup.Wait() and the return. *)
Wait ==
  /\ ret.pc = "initSPs" /\ nextId \notin Tasks
  /\ ret.waitGroup = 0
  /\ ret' = [ret EXCEPT !.pc = "configureSPs"]
  /\ UNCHANGED <<sps, args, r, nextId, calls, w, TempCache, UserCache>>

(* configureSPs after initSPs: the registry of the IDP, or the error       *)
(* Handler returns.                                                        *)
Configure ==
  /\ ret.pc = "configureSPs"
  /\ \E o \in {configureSPs(sps)} :
       ret' = [ret EXCEPT !.pc = "configured", !.err = o.err, !.registry = o.sps]
  /\ UNCHANGED <<sps, args, r, nextId, calls, w, TempCache, UserCache>>

NextInit ==
  \/ Go
  \/ \E t \in Tasks : Fetch(t)
  \/ \E t \in Tasks : Lock(t)
  \/ \E t \in Tasks : Read(t)
  \/ \E t \in Tasks : Set(t)
  \/ \E t \in Tasks : Unlock(t)
  \/ \E t \in Tasks : Done(t)
  \/ Wait
  \/ Configure

SpecInit == InitInit /\ [][NextInit]_vars

(***************************************************************************)
(* Claims about the start of the IDP, under SpecInit.                      *)
(***************************************************************************)
(* The tasks between lock.Lock() and lock.Unlock(). *)
InSave == {t \in Tasks : r[t].pc \in {"ReadSPMetadata", "Set", "Unlock"}}

(* The list after the providers of the tasks were put into it one after    *)
(* the other, in the given order.                                          *)
RECURSIVE UpsertAll(_, _)
UpsertAll(list, order) ==
  IF order = <<>> THEN list
  ELSE UpsertAll(upsert(list, r[Head(order)].sp), Tail(order))

(* initSPs has returned. *)
InitSPsReturned == ret.pc \in {"configureSPs", "configured"}

(* The task's SaveSpFromMetadata returned no error. *)
IngestSucceeded(t) ==
  /\ r[t].pc \in {"Done", "finished"}
  /\ r[t].err = ""
  /\ \E i \in 1..Len(calls) : calls[i] = t

(* C31: at most one task at a time is between lock.Lock() and              *)
(* lock.Unlock(), where SaveSpFromMetadata reads, changes and writes the   *)
(* stored list; initSPs returns only when every task has finished; and     *)
(* when it has returned the stored list is the one the process started     *)
(* with after the upserts of the tasks in the order they were written, so  *)
(* it holds an entry for every provider whose ingest succeeded.            *)
C31_SerializedFanOut ==
  /\ Cardinality(InSave) <= 1
  /\ InitSPsReturned =>
       /\ \A t \in Tasks : r[t].pc = "finished"
       /\ sps = UpsertAll(UnmarshalSps(args.stored), calls)
       /\ \A t \in Tasks :
            IngestSucceeded(t) => \E i \in 1..Len(sps) : sps[i].EntityID = r[t].sp.EntityID

(* Two URLs gave descriptors of two providers, the task of the second      *)
(* wrote first, and initSPs has returned with both in the stored list.     *)
C31_Witness ==
  /\ InitSPsReturned
  /\ calls = <<2, 1>>
  /\ IngestSucceeded(1) /\ IngestSucceeded(2)
  /\ r[1].sp.EntityID = SP1 /\ r[2].sp.EntityID = SP2
  /\ args.stored = <<>>
  /\ Len(sps) = 2 /\ sps[1].EntityID = SP2 /\ sps[2].EntityID = SP1

(* configureSPs has returned to Handler. *)
Configured == ret.pc = "configured"

(* The EntityIDs of the in-memory registry. *)
Registered == DOMAIN ret.registry

(* C32: whatever the metadata URLs give, configureSPs returns no error, so *)
(* Handler goes on to return a handler, and the registry holds every       *)
(* provider stored before the start and every provider a task fetched and  *)
(* ingested without error.                                                 *)
C32_FetchErrorsDoNotAbort ==
  Configured =>
    /\ ret.err = ""
    /\ \A i \in 1..Len(args.stored) : args.stored[i].EntityID \in Registered
    /\ \A t \in Tasks : IngestSucceeded(t) => r[t].sp.EntityID \in Registered

(* What configureSPs does keep: it fails exactly when a stored provider's  *)
(* certificate does not parse, and otherwise registers the providers       *)
(* stored before the start and those ingested without error.               *)
StartsWhenStoredUsable ==
  Configured =>
    /\ ret.err = "" <=> \A i \in 1..Len(sps) : Usable(sps[i])
    /\ ret.err = "" =>
         /\ \A i \in 1..Len(args.stored) : args.stored[i].EntityID \in Registered
         /\ \A t \in Tasks : IngestSucceeded(t) => r[t].sp.EntityID \in Registered

(* Every provider stored before the start was usable, one URL gave a       *)
(* descriptor whose certificate does not parse, its ingest returned no     *)
(* error, and configureSPs failed.                                         *)
AbortedByFetchedMetadata ==
  /\ Configured /\ ret.err = ErrCertificate
  /\ \A i \in 1..Len(args.stored) : Usable(args.stored[i])
  /\ \E t \in Tasks : IngestSucceeded(t) /\ ~Usable(r[t].sp)

(* Handler got no error from configureSPs. *)
Bootstrapped == Configured /\ ret.err = ""

(* C33: after a successful start every provider of the registry has a      *)
(* public key, the key is the one of its certificate, and it is an RSA or  *)
(* a DSA key.                                                              *)
C33_RegistryUsable ==
  Bootstrapped =>
    \A id \in Registered :
      /\ ret.registry[id].publicKey # NoPublicKey
      /\ ret.registry[id].publicKey = ret.registry[id].Certificate.key
      /\ ret.registry[id].publicKey.type \in {"rsa", "dsa"}

(* What configureSPs does establish: every registered provider is stored   *)
(* under its EntityID, its certificate parses, and its key is whatever key *)
(* the certificate holds.                                                  *)
RegistryKeysFromCertificates ==
  Bootstrapped =>
    \A id \in Registered :
      /\ ret.registry[id].EntityID = id
      /\ Usable(ret.registry[id])
      /\ ret.registry[id].publicKey = ret.registry[id].Certificate.key

(* The IDP started with a provider whose key is an ECDSA key, and a        *)
(* request of that provider signed with rsa-sha1 makes verifySignature     *)
(* panic.                                                                  *)
RegisteredOtherKey ==
  /\ Bootstrapped
  /\ SP2 \in Registered
  /\ ret.registry[SP2].publicKey = Key3
  /\ LET q    == SignedQuery(<<ReqTok(XmlA)>>, <<>>, RsaSha256, Key3)
         form == ParseForm(q)
     IN  verifySignature(q, FormGet(form, KSigAlg), FormGet(form, KSignature),
                         ret.registry[SP2]).err = Panic

(***************************************************************************)
(* Handler: the IDP is configured on the first call that finds no handler. *)
(***************************************************************************)
(* The members of IDP an embedder can set before the first call. *)
Components ==
  {"Error", "Auditor", "TLSConfig", "TempCache", "UserCache", "PasswordValidator", "Router"}

HandlerMembers ==
  {"MetadataHandler", "ArtifactResolveHandler", "RedirectSLOHandler", "RedirectSSOHandler",
   "ECPHandler", "PasswordLoginHandler", "QueryHandler", "UIHandler"}

(* The IDP with the given members supplied and every other member nil. *)
NewIDP(supplied) ==
  [m \in Components \cup HandlerMembers |-> IF m \in supplied THEN "supplied" ELSE "nil"]
    @@ [handler |-> "nil", signer |-> "nil", validator |-> "nil", constants |-> "nil",
        sps |-> <<>>]

(* The state a configuration step works on: the IDP, the routes of its     *)
(* router, the steps run so far, and the error of the step that failed.    *)
Configuring(idp, routes, log, err) == [idp |-> idp, routes |-> routes, log |-> log, err |-> err]

(* if i.X == nil { i.X = default }. *)
Default(idp, m) == IF idp[m] = "nil" THEN [idp EXCEPT ![m] = "default"] ELSE idp

ErrConfigure(step) == "error in " \o step

(* configureConstants: the post template and the names and locations. *)
configureConstants(st, fault) ==
  With(Append(st.log, "configureConstants"), LAMBDA log :
  IF fault = "template" THEN [st EXCEPT !.log = log, !.err = ErrConfigure("template")]
  ELSE [st EXCEPT !.log = log, !.idp.constants = "set"])

(* configureSPs as a step of Handler: the registry from the stored list.   *)
configureSPsStep(st, stored) ==
  With(configureSPs(stored), LAMBDA o :
  IF o.err # "" THEN [st EXCEPT !.log = Append(@, "configureSPs"), !.err = o.err]
  ELSE [st EXCEPT !.log = Append(@, "configureSPs"), !.idp.sps = o.sps])

(* configureCrypto: the TLS configuration unless one is set, the signer    *)
(* and the validator; the signer is assigned before its error is returned. *)
configureCrypto(st, fault) ==
  With(Append(st.log, "configureCrypto"), LAMBDA log :
  IF st.idp.TLSConfig = "nil" /\ fault = "ConfigureTLS"
  THEN [st EXCEPT !.log = log, !.err = ErrConfigure("ConfigureTLS")]
  ELSE IF fault = "NewSigner"
  THEN [st EXCEPT !.log = log, !.err = ErrConfigure("NewSigner"),
                  !.idp = [Default(st.idp, "TLSConfig") EXCEPT !.validator = "default"]]
  ELSE [st EXCEPT !.log = log,
                  !.idp = [Default(st.idp, "TLSConfig") EXCEPT !.signer = "default",
                                                            !.validator = "default"]])

(* configureStores: a cache for each of the two that is nil. *)
configureStores(st, fault) ==
  With(Append(st.log, "configureStores"), LAMBDA log :
  IF st.idp.TempCache = "nil" /\ fault = "TempCache"
  THEN [st EXCEPT !.log = log, !.err = ErrConfigure("TempCache")]
  ELSE IF st.idp.UserCache = "nil" /\ fault = "UserCache"
  THEN [st EXCEPT !.log = log, !.err = ErrConfigure("UserCache"),
                  !.idp = Default(st.idp, "TempCache")]
  ELSE [st EXCEPT !.log = log, !.idp = Default(Default(st.idp, "TempCache"), "UserCache")])

(* configureValidator: the LDAP validator unless one is set. *)
configureValidator(st, fault) ==
  With(Append(st.log, "configureValidator"), LAMBDA log :
  IF st.idp.PasswordValidator = "nil" /\ fault = "LdapValidator"
  THEN [st EXCEPT !.log = log, !.err = ErrConfigure("LdapValidator")]
  ELSE [st EXCEPT !.log = log, !.idp = Default(st.idp, "PasswordValidator")])

(* The handler members in the order configureHandler goes through them. *)
HandlerOrder ==
  <<"MetadataHandler", "ArtifactResolveHandler", "RedirectSLOHandler", "RedirectSSOHandler",
    "ECPHandler", "PasswordLoginHandler", "QueryHandler", "UIHandler">>

RECURSIVE DefaultAll(_, _)
DefaultAll(idp, members) ==
  IF members = <<>> THEN idp ELSE DefaultAll(Default(idp, Head(members)), Tail(members))

(* configureHandler: a router unless one is set, then each handler unless  *)
(* it is set; DefaultMetadataHandler is the one that can fail.             *)
configureHandler(st, fault) ==
  With(Append(st.log, "configureHandler"), LAMBDA log :
  IF st.idp.MetadataHandler = "nil" /\ fault = "DefaultMetadataHandler"
  THEN [st EXCEPT !.log = log, !.err = ErrConfigure("DefaultMetadataHandler"),
                  !.idp = Default(st.idp, "Router")]
  ELSE [st EXCEPT !.log = log, !.idp = DefaultAll(Default(st.idp, "Router"), HandlerOrder)])

(* A route: method, path (the configuration key it is read from, or the    *)
(* path itself), and the member whose value is registered.                 *)
Route(method, path, member) == [method |-> method, path |-> path, member |-> member]

RouteTable ==
  <<Route("GET", "metadata-path", "MetadataHandler"),
    Route("POST", "artifact-service-path", "ArtifactResolveHandler"),
    Route("GET", "slo-service-path", "RedirectSLOHandler"),
    Route("GET", "sso-service-path", "RedirectSSOHandler"),
    Route("POST", "ecp-service-path", "ECPHandler"),
    Route("POST", "/idp/static/login.html", "PasswordLoginHandler"),
    Route("POST", "attribute-service-path", "QueryHandler"),
    Route("GET", "/idp/static/*path", "UIHandler"),
    Route("GET", "/favicon.ico", "UIHandler")>>

(* buildRoutes: every route is registered on the router with the handler   *)
(* the member holds.                                                       *)
buildRoutes(st) ==
  [st EXCEPT !.log = Append(@, "buildRoutes"),
             !.routes = @ \o [k \in 1..Len(RouteTable) |->
                                [RouteTable[k] EXCEPT !.member = st.idp[RouteTable[k].member]]]]

(* if err := step; err != nil { return nil, err }. *)
Then(st, step(_)) == IF st.err # "" THEN st ELSE step(st)

(* Handler as it would be if it configured the IDP on every call. *)
Handler_EveryCall(st, stored, fault) ==
  LET s0 == [st EXCEPT !.err = "", !.idp = Default(Default(st.idp, "Error"), "Auditor")]
      s1 == configureConstants(s0, fault)
      s2 == Then(s1, LAMBDA s : configureSPsStep(s, stored))
      s3 == Then(s2, LAMBDA s : configureCrypto(s, fault))
      s4 == Then(s3, LAMBDA s : configureStores(s, fault))
      s5 == Then(s4, LAMBDA s : configureValidator(s, fault))
      s6 == Then(s5, LAMBDA s : configureHandler(s, fault))
      s7 == Then(s6, LAMBDA s : buildRoutes(s))
  IN  IF s7.err # "" THEN s7 ELSE [s7 EXCEPT !.idp.handler = s7.idp.Router]

(* Handler: the state after the call; err is the error returned, and       *)
(* idp.handler the handler returned when err is empty.                     *)
Handler(st, stored, fault) ==
  IF st.idp.handler # "nil" THEN [st EXCEPT !.err = ""]
  ELSE
  LET s0 == [st EXCEPT !.err = "", !.idp = Default(Default(st.idp, "Error"), "Auditor")]
      s1 == configureConstants(s0, fault)
      s2 == Then(s1, LAMBDA s : configureSPsStep(s, stored))
      s3 == Then(s2, LAMBDA s : configureCrypto(s, fault))
      s4 == Then(s3, LAMBDA s : configureStores(s, fault))
      s5 == Then(s4, LAMBDA s : configureValidator(s, fault))
      s6 == Then(s5, LAMBDA s : configureHandler(s, fault))
      s7 == Then(s6, LAMBDA s : buildRoutes(s))
  IN  IF s7.err # "" THEN s7 ELSE [s7 EXCEPT !.idp.handler = s7.idp.Router]

(***************************************************************************)
(* SpecHandler: an IDP with some members supplied, and calls of Handler.   *)
(***************************************************************************)
(* What the embedder supplies: any of the components, and none, one or     *)
(* all of the handlers.                                                    *)
SuppliedSets ==
  {c \cup h : c \in SUBSET Components,
              h \in {{}, HandlerMembers} \cup {{m} : m \in HandlerMembers}}

(* The step of a call that fails, if one does. *)
HandlerFaults ==
  {"", "template", "ConfigureTLS", "NewSigner", "TempCache", "UserCache", "LdapValidator",
   "DefaultMetadataHandler"}

(* A stored list with a provider whose certificate does not parse. *)
UnusableList ==
  <<convertMetadata(Metadata(TRUE, SP1, TRUE, CertText(TRUE, FALSE, NoPublicKey),
                             MetaACS(Loc1), <<>>)).sp>>

(* The number of calls of Handler in one behaviour. *)
MaxCalls == 2

InitHandler ==
  /\ sps \in StoredLists \cup {UnusableList}
  /\ \E supplied \in SuppliedSets :
       /\ args = [supplied |-> supplied]
       /\ r = NewIDP(supplied)
  /\ w = [routes |-> <<>>]
  /\ calls = <<>>
  /\ ret = [done |-> FALSE, handler |-> "nil", err |-> "", first |-> FALSE]
  /\ nextId = 1
  /\ TempCache = EmptyCache /\ UserCache = EmptyCache

(* One call of Handler. *)
CallHandler ==
  /\ nextId <= MaxCalls
  /\ \E fault \in HandlerFaults :
       \E o \in {Handler(Configuring(r, w.routes, calls, ""), sps, fault)} :
         /\ r' = o.idp
         /\ w' = [routes |-> o.routes]
         /\ calls' = o.log
         /\ ret' = [done |-> TRUE, handler |-> IF o.err = "" THEN o.idp.handler ELSE "nil",
                    err |-> o.err, first |-> r.handler = "nil"]
  /\ nextId' = nextId + 1
  /\ UNCHANGED <<sps, args, TempCache, UserCache>>

NextHandler == CallHandler

SpecHandler == InitHandler /\ [][NextHandler]_vars

(***************************************************************************)
(* Claims about Handler, under SpecHandler.                                *)
(***************************************************************************)
(* The configuration steps in the order Handler runs them. *)
StepOrder ==
  <<"configureConstants", "configureSPs", "configureCrypto", "configureStores",
    "configureValidator", "configureHandler", "buildRoutes">>

(* The step is a call of Handler. *)
HandlerCalled == nextId' = nextId + 1

(* C34: a call of Handler that finds no handler runs the configuration     *)
(* steps in the order constants, SPs, crypto, stores, validator, handlers, *)
(* routes, up to the first that fails, and returns a handler exactly when  *)
(* all seven ran; a call that finds a handler returns it and runs no step, *)
(* changes no member and registers no route; a member that is set, by the  *)
(* embedder or by an earlier call, is never replaced, and every route is   *)
(* registered once, with the handler its member holds.                     *)
C34_BootstrapOnce ==
  [][HandlerCalled =>
       /\ r.handler = "nil" =>
            /\ \E n \in 1..Len(StepOrder) : calls' = calls \o SubSeq(StepOrder, 1, n)
            /\ ret'.err = "" <=> calls' = calls \o StepOrder
            /\ ret'.err = "" =>
                 /\ ret'.handler = r'.Router /\ r'.handler = r'.Router
                 /\ r'.Router # "nil"
       /\ r.handler # "nil" =>
            /\ ret'.err = "" /\ ret'.handler = r.handler
            /\ r' = r /\ calls' = calls /\ w' = w
       /\ \A m \in Components \cup HandlerMembers : r[m] # "nil" => r'[m] = r[m]
       /\ \A m \in args.supplied : r'[m] = "supplied"
       /\ w'.routes \in {<<>>, [k \in 1..Len(RouteTable) |->
                                  [RouteTable[k] EXCEPT !.member = r'[RouteTable[k].member]]]}
    ]_vars

(* A second call of Handler returned the handler of the first: the router  *)
(* and the temp cache are the embedder's, the user cache is the default    *)
(* one, the seven steps ran once and the nine routes are registered once.  *)
C34_Witness ==
  /\ nextId = MaxCalls + 1 /\ ret.done /\ ~ret.first /\ ret.err = ""
  /\ ret.handler = "supplied" /\ r.Router = "supplied"
  /\ r.TempCache = "supplied" /\ r.UserCache = "default"
  /\ r.RedirectSSOHandler = "supplied" /\ r.RedirectSLOHandler = "default"
  /\ calls = StepOrder
  /\ Len(w.routes) = Len(RouteTable)

(***************************************************************************)
(* Claims about whole runs of the IDP, under Spec.                         *)
(***************************************************************************)
(* The saveable requests of the SSO requests that pass validateAuthRequest *)
(* against the registry.                                                   *)
ValidatedRequests ==
  {NewAuthnRequest(
     validateAuthRequest(Registry, DecodedOf(rq), rq.RawQuery, FormOf(rq)).request,
     RelayOf(rq)) :
     rq \in {q \in SSORequests :
               /\ ReachesValidation(q)
               /\ validateAuthRequest(Registry, DecodedOf(q), q.RawQuery, FormOf(q)).err = ""}}

(* The SSO request passed validateAuthRequest and presents a live session  *)
(* or a client certificate.                                                *)
SSOAuthenticated ==
  /\ r'.kind = "sso"
  /\ ReachesValidation(r') /\ ValidationOf(r').err = ""
  /\ \/ getUserFromSession(StateOf, r') # NoUser
     \/ getCertFromRequest(r') # ""

(* The login form names a live TempCache entry that holds a validated      *)
(* request, and the validator accepts the credentials.                     *)
FormAuthenticated ==
  /\ r'.kind = "password"
  /\ CacheHas(TempCache, r'.RequestId)
  /\ TempCache[r'.RequestId].request \in ValidatedRequests
  /\ Validate(r'.Ldap, r'.Username, r'.Password).err = ""

(* C35: in every run, a request reaches respond only if it is an SSO       *)
(* request that passed validateAuthRequest and presents a live session or  *)
(* a client certificate, or a login form whose requestId is a live         *)
(* TempCache entry holding a validated request and whose credentials the   *)
(* validator accepted; a session is created by no other request; and the   *)
(* validator is called only for a requestId that is in TempCache.          *)
C35_AuthenticationSound ==
  [][/\ (Handled /\ Called(calls', {"respond"})) => (SSOAuthenticated \/ FormAuthenticated)
     /\ Created # {} => (Handled /\ Called(calls', {"respond"}))
     /\ (Handled /\ Called(calls', {"Validate"})) =>
          /\ r'.kind = "password"
          /\ CacheHas(TempCache, r'.RequestId)]_vars

(* The login form of a validated request was posted with the right         *)
(* password: the validator was called, respond minted the session of the   *)
(* cookie, and no session or certificate was presented.                    *)
C35_Witness ==
  /\ r.kind = "password" /\ r.Password = "secret"
  /\ Called(calls, {"Validate"}) /\ Called(calls, {"respond"})
  /\ CacheHas(TempCache, r.RequestId)
  /\ TempCache[r.RequestId].request \in ValidatedRequests
  /\ w.cookie.t = "uuid" /\ CacheHas(UserCache, w.cookie)
  /\ UserCache[w.cookie].Name = Bob

(* The user a later request presenting the session key k resolves to,      *)
(* after the step.                                                         *)
ResolvesAfter(k) ==
  getUserFromSession([TempCache |-> TempCache', UserCache |-> UserCache', nextId |-> nextId'],
                     [Cookie |-> k])

(* C36: a logout request removes at most the user-cache entry of the       *)
(* cookie it presents, and a request that reaches respond adds one entry   *)
(* under a new key and removes none, not even the one of the cookie it     *)
(* presents; so after a logout every other session key, in particular an   *)
(* earlier key of the same user, still resolves to its user until its TTL  *)
(* elapses.                                                                *)
C36_ResidualSessions ==
  [][/\ (Handled /\ r'.kind = "slo") =>
          /\ (DOMAIN UserCache) \ (DOMAIN UserCache') \subseteq {r'.Cookie}
          /\ \A k \in (DOMAIN UserCache) \ {r'.Cookie} : ResolvesAfter(k) = UserCache[k]
     /\ (Handled /\ Called(calls', {"respond"})) =>
          /\ \A k \in DOMAIN UserCache : ResolvesAfter(k) = UserCache[k]
          /\ Created \subseteq {w'.cookie}
          /\ r'.Fault # "UserCache.Set" => Created = {w'.cookie}]_vars

(* A logout presenting the second key the process issued has just been     *)
(* served and answered with a cleared cookie; the session under the first  *)
(* key is still in the user cache and resolves to its user.                *)
C36_Witness ==
  /\ r.kind = "slo" /\ r.Cookie = UUID(2)
  /\ w.status = 200 /\ w.cookie = ClearedCookie
  /\ Called(calls, {"deleteUserFromSession"})
  /\ ~CacheHas(UserCache, UUID(2))
  /\ getUserFromSession(StateOf, [Cookie |-> UUID(1)]).Name = Alice

(***************************************************************************)
(* The SLO handler and a binding it does not deliver, under SpecSLO.       *)
(***************************************************************************)
(* C37: a LogoutRequest that validateLogoutRequest accepts and whose       *)
(* effective binding is neither HTTP-POST nor HTTP-Redirect, one that      *)
(* names the logout URL of the metadata and no ProtocolBinding included,   *)
(* is answered with HTTP 400 'unsupported protocol binding', and by then   *)
(* deleteUserFromSession has removed the session of the presented cookie   *)
(* and the response clears the cookie.                                     *)
C37_SLOUnsupportedBinding ==
  [][(ServingSLO /\ ValidLogout /\ EffectiveBinding \notin {BindingPOST, BindingRedirect})
       => /\ w'.status = 400 /\ w'.body = ErrBinding
          /\ w'.cookie = ClearedCookie
          /\ calls'[Len(calls')] = Call("deleteUserFromSession")
          /\ UserCache' = deleteUserFromSession(StateOf, r).UserCache
          /\ ~CacheHas(UserCache', r.Cookie)]_vars

(* A logout request naming the logout URL of the metadata and no binding   *)
(* was presented with the first of two sessions: it is answered 400 with a *)
(* cleared cookie, and only the second session is left.                    *)
C37_Witness ==
  /\ r.kind = "slo" /\ w # NoResponse /\ ValidLogout
  /\ LogoutOfRequest.ProtocolBinding = ""
  /\ LogoutOfRequest.SingleLogoutServiceUrl = FirstSLO.Location
  /\ w.status = 400 /\ w.body = ErrBinding /\ w.cookie = ClearedCookie
  /\ r.Cookie = UUID(1) /\ DOMAIN UserCache = {UUID(2)}

(***************************************************************************)
(* respond and a binding it does not deliver, under Spec.                  *)
(***************************************************************************)
(* C38: when a request reaches respond with a binding other than           *)
(* HTTP-Artifact, HTTP-POST and PAOS, the caller gets the error (HTTP 400  *)
(* from the SSO handler, the login page with the error from the password   *)
(* handler), and yet the user is stored under a new session key, the       *)
(* response carries that key as the session cookie, and the entry is live: *)
(* nothing is rolled back.                                                 *)
C38_RespondNoRollback ==
  [][(Dispatching /\ RespondBinding \notin Supported) =>
       /\ r'.kind = "sso" => w'.status = 400 /\ w'.body = ErrBinding
       /\ r'.kind = "password" => w'.status = 302 /\ w'.location.to = LoginPage
       /\ w'.cookie = UUID(nextId)
       /\ ~CacheHas(UserCache, UUID(nextId))
       /\ RespondedWith(calls', UserCache'[UUID(nextId)])
       /\ UserCache' = CacheSet(UserCache, UUID(nextId), UserCache'[UUID(nextId)])
       /\ ResolvesAfter(w'.cookie) = UserCache'[w'.cookie]
       /\ ResolvesAfter(w'.cookie) # NoUser
       /\ TempCache' = TempCache]_vars

(* An SSO request with binding HTTP-Redirect and a client certificate has  *)
(* just been answered 400 'unsupported protocol binding', with a session   *)
(* cookie whose key holds the certificate's user.                          *)
C38_Witness ==
  /\ r.kind = "sso" /\ Called(calls, {"respond"})
  /\ DecodedOf(r).ProtocolBinding = BindingRedirect
  /\ w.status = 400 /\ w.body = ErrBinding
  /\ w.cookie.t = "uuid" /\ CacheHas(UserCache, w.cookie)
  /\ UserCache[w.cookie].Name = Alice

(***************************************************************************)
(* Artifact resolution and the identity of the caller (Spec).              *)
(***************************************************************************)
(* The step serves a resolution request that presents a client certificate. *)
ResolveWithCert == ResolveServed /\ r'.Cert # ""

(* What the handler would have done with the request of the step in the    *)
(* state before it, had the request presented certificate cert.            *)
ResolvedUnder(cert) == DefaultArtifactResolveHandler(StateOf, [r' EXCEPT !.Cert = cert])

(* C39: artifact resolution is not bound to the requesting provider: a     *)
(* request that presents any client certificate is answered with the       *)
(* assertion exactly when its body decodes, TempCache holds its artifact   *)
(* and the signer works, whatever the certificate and whatever the issuer  *)
(* of the stored request; the response and the caches are the ones every   *)
(* other certificate would have got.                                       *)
C39_ResolveNotBoundToSP ==
  [][ResolveWithCert =>
       /\ w'.status = 200 <=>
            (r'.BodyOk /\ CacheHas(TempCache, r'.Artifact) /\ r'.Fault = "")
       /\ w'.status = 200 => AssertionOfStored
       /\ \A cert \in ClientCerts :
            \E o \in {ResolvedUnder(cert)} :
              /\ o.w = w' /\ o.calls = calls'
              /\ o.TempCache = TempCache' /\ o.UserCache = UserCache']_vars

(* The artifact issued for a request of the registered provider was        *)
(* resolved to a caller presenting another certificate.                    *)
C39_Witness ==
  /\ r.kind = "resolve" /\ r.Cert = OtherCert /\ r.Cert # SPCert
  /\ w.status = 200
  /\ w.envelope.Response.Assertion.Audience \in DOMAIN Registry
  /\ w.envelope.Response.Assertion.Subject.Value = Alice

(***************************************************************************)
(* Logout requests and signatures (SpecSLO).                               *)
(***************************************************************************)
(* The pair seg of a raw query is neither SigAlg nor Signature. *)
NotSignatureParam(seg) == Cut(seg, "=").before \notin {KSigAlg, KSignature}

(* The raw query without its SigAlg and Signature parameters. *)
WithoutSignature(rawQuery) == Join(SelectSeq(Split(rawQuery, "&"), NotSignatureParam), Amp)

(* The SAMLRequest value as it travels in the raw query. *)
RawSAMLRequest(rawQuery) == Cut(Head(Split(rawQuery, "&")), "=").after

(* The requests that differ from r in SigAlg and Signature only and whose  *)
(* query can be parsed.                                                    *)
SignatureVariants ==
  {rq \in {[r EXCEPT !.RawQuery = WithoutSignature(r.RawQuery) \o s] :
             s \in SignatureSuffixes(RawSAMLRequest(r.RawQuery))} :
     ~ParseForm(rq.RawQuery).err}

====
